---- MODULE Spec2Model ----
(***************************************************************************)
(* meta-checker: the discovery-fetch pipeline as state machines.           *)
(*                                                                         *)
(*   URL claim ledger      src/src/discover/frontier.js  tryClaim          *)
(*   bucketed frontier     src/src/discover/frontier.js  appendToBuckets,  *)
(*                         claimNextBucket, claimNextAnyBucket             *)
(*   bucketed crawl loop   src/src/discover/frontier.js  crawlSite,        *)
(*                         acquireBucketOwner, tryOneBucket                *)
(*   single-file crawl     src/src/discover/frontier.js  claimNext,        *)
(*                         crawlSite (legacy frontier loop)                *)
(*   fetch stage           src/unnamed/part_006 (src/run.js)  claimUrl,    *)
(*                         run: fetch loop, stopRequested                  *)
(*   orchestrator          src/unnamed/part_009 (scripts/shard-run.js)     *)
(*                         spawn loop, launchNext, child exit handlers     *)
(*   input classifier      src/unnamed/part_002 (telemetry.js) and         *)
(*                         src/unnamed/part_000 (shape-sniff.js)           *)
(*                         sniffCsvShape                                   *)
(*   output gate           src/unnamed/part_002 and src/unnamed/part_000   *)
(*                         (output-gating.js)  validateOutputs             *)
(*   run mode              src/unnamed/part_006 (src/run.js)  run: input   *)
(*                         mode resolution; src/unnamed/part_003 parseCsv  *)
(*                                                                         *)
(* A URL is modelled by a number in Urls; sha1(url), the ledger file name, *)
(* is injective on the URLs of a run, so the URL itself names its .lock    *)
(* and .done files.  A file descriptor is modelled by whether it is open.  *)
(***************************************************************************)
EXTENDS Integers, Sequences, FiniteSets, TLC

\* ------------------------------------------------------------- bounds
NWorkers == 2
NUrls == 3
NBuckets == 2
\* the longest URL list handed to one appendToBuckets call
MaxAppend == 2
\* the most lines the single frontier file grows to
MaxFrontier == 3
\* the most follow-up section tasks queued behind the frontier workers
MaxSections == 1
\* the most a totals counter of the telemetry server is bumped to, and the
\* most events it logs
MaxTotal == 1
MaxEvents == 1
\* the most columns and lines of an input file
MaxCols == 4
MaxRows == 5
\* the lengths of a URL cell, of a short text cell and of a long text cell
UrlLen == 40
ShortLen == 100
LongLen == 140

\* the longest pathname of a URL handed to normalizeUrl, and the calls of a round
MaxPathLen == 4
NormCalls == 2

Workers == 1..NWorkers
Urls == 1..NUrls
Buckets == 0..(NBuckets - 1)
Tasks == 1..(NWorkers + MaxSections)

\* ------------------------------------------------- program constants
\* parseInt(process.env.MC_LOCK_TRIES || '60'): the run sets MC_LOCK_TRIES=2
MC_LOCK_TRIES == 2
\* parseInt(process.env.MC_MAX_DONE || '5000'): the run sets MC_MAX_DONE=1
MC_MAX_DONE == 1
\* parseInt(process.env.MC_BUCKET_MAX_BYTES || '134217728'): the run sets
\* MC_BUCKET_MAX_BYTES=4
MC_BUCKET_MAX_BYTES == 4
\* tryOneBucket: "if (localIdle >= 6) break"
LocalIdleLimit == 6
\* crawlSite: "if (stableCycles >= 5 || idleCycles >= 50)"
StableQuiet == 5
IdleQuiet == 50
\* crawlSite: "if (stableCycles >= 60)"
StableSettled == 60
\* run: conc = Math.max(1, Number(cfg.concurrency || 4)): the run sets
\* --concurrency 2
FetchConc == 2
\* crawlSite, legacy loop: "if (idleCycles >= 250)"
LegacyIdleExit == 250
\* sniffCsvShape: "avgLen < 120 ? 'title' : 'description'"
TitleMaxLen == 120
\* crawlSite: maxPages = 50000 by default: the run sets --maxPages 2
maxPages == 2

VARIABLES
  lockF,     \* disco-locks: lockF[u] = w when <sha1(u)>.lock exists, created by w; 0 when absent
  doneF,     \* disco-locks: the URLs whose <sha1(u)>.done exists
  everDone,  \* history: the URLs whose .done marker has been created in this run
  tc,        \* tc[w]: the tryClaim call worker w is inside of
  h,         \* h[w]: the claim handle worker w has in scope
  ret        \* ret[w]: what w's last tryClaim returned; for a claim or an EEXIST
             \* refusal the URL, and for a claim whether the call began after
             \* the URL's .done marker had been created

VARIABLES
  bfile,     \* bfile[r]: the lines (URLs) of bucket.r.ndjson, in file order
  cursor,    \* cursor[r]: the number in bucket.r.offset, 0 while the file is absent
  rotatedF,  \* rotatedF[r]: the URLs in bucket r's rotated siblings bucket.r.<ts>.ndjson
  cn         \* the last claimNextBucket / claimNextAnyBucket call: its caller, how
             \* it ended and the bucket it ended on

VARIABLES
  rt         \* the round-trip loop: "seed" while seeding, "loop" while claiming,
             \* "ended" when a call returned nothing, "raised" when one threw

VARIABLES
  owner,     \* owner[r]: the worker whose assign/bucket.r.owner file exists, 0 when absent
  cw         \* cw[w]: worker w's place in crawlSite's bucketed loop and its locals

VARIABLES
  stopFlag,  \* telemetry/stop.flag exists
  fetchLock, \* locks dir: fetchLock[u] = w when <sha1(u)>.lock exists, created by w; 0 when absent
  fw,        \* fw[w]: worker w's place in run's fetch loop, its toFetch and its batch tasks
  recOnce,   \* the URLs with a page record in some worker's out
  recAgain   \* the URLs for which a further page record has been pushed

ledgerVars == <<lockF, doneF, everDone, tc, h, ret>>
bucketVars == <<bfile, cursor, rotatedF, cn>>
crawlVars == <<owner, cw>>
VARIABLES
  ffile,     \* the lines (URLs) of the single frontier file, in file order
  lw         \* lw[w]: worker w's place in crawlSite's legacy loop and its locals

VARIABLES
  orch,      \* the orchestrator: its path, its place in the spawn loop or pool, its counters
  child,     \* child[t]: task t's child process and the progress of its exit handler
  partF,     \* partF[t]: what task t's worker wrote to urls-final.part<t>.json
  master,    \* the lines of urls-final.txt, in file order
  appended,  \* history: appended[t] = how often t's part has been appended to the master list
  steps,     \* history: the merge-urls, cleanup and done steps reported, in order
  finalList  \* the URL list the last merge produced

VARIABLES
  inputFile, \* the input file of the run: absent, or its first non-empty lines
  pf         \* the last result of the input sniffers, the output gate or the mode resolution

VARIABLES
  hc         \* the last complete() or release() made on a handle that stays in
             \* scope: the caller, the call, whether the handle's fd was closed

VARIABLES
  wl         \* wl[w]: worker w's place in run(), its URL slice and index, the phases reported

VARIABLES
  tel        \* the workers' telemetry client: the updates in flight to the hub, what was sent

VARIABLES
  sd         \* the orchestrator's discovery bootstrap: its place, the seed-scan's results

VARIABLES
  nz         \* the normalizeUrl round: its input, keepPageParam, the calls made, their results

VARIABLES
  hub,       \* the telemetry server: APPLIED, STARTED, STOP_REQUESTED, STATE, its last response
  cfgFile    \* telemetry/config.json

fetchVars == <<fetchLock, fw, recOnce, recAgain>>
legacyVars == <<ffile, lw>>
runVars == <<orch, child, partF, master, appended, steps, finalList>>
shapeVars == <<inputFile, pf>>
hubVars == <<hub, cfgFile>>
vars == <<lockF, doneF, everDone, tc, h, ret, bfile, cursor, rotatedF, cn, rt,
          owner, cw, stopFlag, fetchLock, fw, recOnce, recAgain, ffile, lw,
          orch, child, partF, master, appended, steps, finalList, inputFile, pf,
          hub, cfgFile, nz, hc, sd, tel, wl>>

\* what the actions of one component leave alone outside their own files
LedgerFrame == <<bucketVars, rt, crawlVars, stopFlag, fetchVars, legacyVars, runVars, shapeVars,
  hubVars, nz, hc, sd, tel, wl>>
BucketsFrame == <<rt, crawlVars, stopFlag, fetchVars, legacyVars, runVars, shapeVars,
  hubVars, nz, hc, sd, tel, wl>>
RoundTripFrame == <<crawlVars, stopFlag, fetchVars, legacyVars, runVars, shapeVars,
  hubVars, nz, hc, sd, tel, wl>>
CrawlFrame == <<everDone, tc, ret, rt, stopFlag, fetchVars, legacyVars, runVars, shapeVars,
  hubVars, nz, hc, sd, tel, wl>>
FetchFrame == <<ledgerVars, bucketVars, rt, crawlVars, legacyVars, runVars, shapeVars,
  hubVars, nz, hc, sd, tel, wl>>
LegacyFrame == <<tc, ret, bucketVars, rt, crawlVars, fetchVars, runVars, shapeVars,
  hubVars, nz, hc, sd, tel, wl>>
RunFrame == <<ledgerVars, bucketVars, rt, crawlVars, legacyVars, shapeVars,
  hubVars, nz, hc, sd, tel, wl>>
ShapeFrame == <<ledgerVars, bucketVars, rt, crawlVars, stopFlag, fetchVars, legacyVars, runVars,
  hubVars, nz, hc, sd, tel, wl>>
\* what POST /stop leaves alone, and what the other handlers of the server do
StopFrame == <<ledgerVars, bucketVars, rt, crawlVars, fetchVars, legacyVars, runVars, shapeVars,
  nz, hc, sd, tel, wl>>
HubFrame == <<ledgerVars, bucketVars, rt, crawlVars, fetchVars, legacyVars, runVars, nz, hc, sd, tel, wl>>
\* what normalizeUrl leaves alone: everything on disk
NormFrame == <<ledgerVars, bucketVars, rt, crawlVars, stopFlag, fetchVars, legacyVars, runVars,
  shapeVars, hubVars, hc, sd, tel, wl>>
\* what a call on a claim handle leaves alone outside the ledger
HandleFrame == <<bucketVars, rt, crawlVars, stopFlag, fetchVars, legacyVars, runVars, shapeVars,
  hubVars, nz, sd, tel, wl>>

\* ---------------------------------------------------- URL claim ledger
NoCall   == [st |-> "idle", url |-> 0, tries |-> 0, after |-> FALSE]
NoHandle == [url |-> 0, fd |-> FALSE]
NoResult == [res |-> "none", url |-> 0, after |-> FALSE]
NoHandleCall == [w |-> 0, op |-> "none", closed |-> FALSE]

\* w holds a claim on u: tryClaim returned a handle whose fd is still open,
\* i.e. neither complete() nor release() has run on it.
Holds(w, u) == h[w].url = u /\ h[w].fd

LedgerInit ==
  /\ lockF = [u \in Urls |-> 0]
  /\ doneF = {}
  /\ everDone = {}
  /\ tc = [w \in Workers |-> NoCall]
  /\ h = [w \in Workers |-> NoHandle]
  /\ ret = [w \in Workers |-> NoResult]
  /\ hc = NoHandleCall

\* fs.existsSync(donePath) at the head of tryClaim
DoneExists(u) == u \in doneF

\* fs.openSync(lockPath, 'wx') fails with EEXIST: the .lock is there
OpenNonExclusive(u) == FALSE
OpenEEXIST(u) == lockF[u] # 0

\* the .done files the opportunistic GC may unlink: readdir order is the
\* directory's, so any files.length - maxDone of them are the victims
GcKeepsAll(files) == {{}}
GcVictims(files) ==
  IF Cardinality(files) > MC_MAX_DONE
  THEN {v \in SUBSET files : Cardinality(v) = Cardinality(files) - MC_MAX_DONE}
  ELSE {{}}

\* the opportunistic GC, lines 142-146: the victims are taken from the files
\* that end in '.done', so the .lock files are as they were; and a trim that
\* unlinks the victims' .lock files too
locksAfterGcAll(locks, victims) == [u \in Urls |-> IF u \in victims THEN 0 ELSE locks[u]]
locksAfterGc(locks, victims) == locks

\* tryClaim, lines 101-106: the .done check.  A URL whose .done exists is
\* refused at once; otherwise the call goes on to the exclusive create.
TryClaimBegin(w, u) ==
  /\ tc[w].st = "idle"
  /\ h[w].url = 0
  /\ IF DoneExists(u)
     THEN /\ ret' = [ret EXCEPT ![w] = [res |-> "done", url |-> 0, after |-> FALSE]]
          /\ tc' = tc
     ELSE /\ tc' = [tc EXCEPT ![w] = [st |-> "open", url |-> u, tries |-> 0,
                                      after |-> u \in everDone]]
          /\ ret' = [ret EXCEPT ![w] = NoResult]
  /\ UNCHANGED <<lockF, doneF, everDone, h>>

\* tryClaim, lines 111-126: one pass of the retry loop that hits a transient
\* error (EBUSY/EPERM/EACCES/EPROTO); after MC_LOCK_TRIES passes fd < 0 and
\* the call returns null (lines 127-130).
TryClaimBusy(w) ==
  /\ tc[w].st = "open"
  /\ IF tc[w].tries + 1 >= MC_LOCK_TRIES
     THEN /\ tc' = [tc EXCEPT ![w] = NoCall]
          /\ ret' = [ret EXCEPT ![w] = [res |-> "busy", url |-> 0, after |-> FALSE]]
     ELSE /\ tc' = [tc EXCEPT ![w].tries = @ + 1]
          /\ ret' = ret
  /\ UNCHANGED <<lockF, doneF, everDone, h>>

\* tryClaim, lines 113-117: the exclusive create finds the .lock (EEXIST)
TryClaimExists(w) ==
  /\ tc[w].st = "open"
  /\ OpenEEXIST(tc[w].url)
  /\ tc' = [tc EXCEPT ![w] = NoCall]
  /\ ret' = [ret EXCEPT ![w] = [res |-> "exists", url |-> tc[w].url, after |-> FALSE]]
  /\ UNCHANGED <<lockF, doneF, everDone, h>>

\* tryClaim, lines 123-124: the exclusive create fails with an error that is
\* neither EEXIST nor transient; the call gives up on the URL
TryClaimHardError(w) ==
  /\ tc[w].st = "open"
  /\ tc' = [tc EXCEPT ![w] = NoCall]
  /\ ret' = [ret EXCEPT ![w] = [res |-> "error", url |-> tc[w].url, after |-> FALSE]]
  /\ UNCHANGED <<lockF, doneF, everDone, h>>

\* tryClaim, lines 152-154: the catch after a failed write closes the fd and
\* unlinks lockPath; and a catch that leaves the file
writeFailLeavesLock(w, u) == [lockF EXCEPT ![u] = w]
writeFailCleanup(w, u) == [lockF EXCEPT ![u] = 0]

\* tryClaim, lines 113, 131-135 and 152-154: the exclusive create succeeds
\* and writing the owner record throws; the call returns null
TryClaimWriteFails(w) ==
  /\ tc[w].st = "open"
  /\ ~OpenEEXIST(tc[w].url)
  /\ lockF' = writeFailCleanup(w, tc[w].url)
  /\ tc' = [tc EXCEPT ![w] = NoCall]
  /\ ret' = [ret EXCEPT ![w] = [res |-> "failed", url |-> tc[w].url, after |-> FALSE]]
  /\ UNCHANGED <<doneF, everDone, h>>

\* tryClaim, lines 113-151: the exclusive create succeeds, the owner record
\* is written, old .done files are trimmed and the handle is returned.
TryClaimCreate(w) ==
  /\ tc[w].st = "open"
  /\ ~OpenEEXIST(tc[w].url)
  /\ \E victims \in GcVictims(doneF) :
       /\ doneF' = doneF \ victims
       /\ lockF' = locksAfterGc([lockF EXCEPT ![tc[w].url] = w], victims)
  /\ h' = [h EXCEPT ![w] = [url |-> tc[w].url, fd |-> TRUE]]
  /\ tc' = [tc EXCEPT ![w] = NoCall]
  /\ ret' = [ret EXCEPT ![w] = [res |-> "claimed", url |-> tc[w].url, after |-> tc[w].after]]
  /\ UNCHANGED everDone

\* fs.closeSync(fd) at the head of complete() and release(), lines 137 and
\* 150: it returns on the handle's open fd and throws on its closed fd; and
\* a close that never throws
closeSyncNeverThrows(w) == TRUE
closeSyncOk(w) == h[w].fd

\* the handle's complete(), line 136-138: close the fd and rename .lock to
\* .done; on a handle whose fd is closed closeSync throws and nothing else runs.
Complete(w) ==
  /\ h[w].url # 0
  /\ tc[w].st = "idle"
  /\ IF closeSyncOk(w)
     THEN /\ h' = [h EXCEPT ![w].fd = FALSE]
          /\ IF lockF[h[w].url] # 0
             THEN /\ lockF' = [lockF EXCEPT ![h[w].url] = 0]
                  /\ doneF' = doneF \cup {h[w].url}
                  /\ everDone' = everDone \cup {h[w].url}
             ELSE UNCHANGED <<lockF, doneF, everDone>>
     ELSE UNCHANGED <<lockF, doneF, everDone, h>>
  /\ UNCHANGED <<tc, ret>>

\* the handle's release(), line 150, as the crawl loops call it last on every
\* handle (lines 925-928, 1060-1063): close the fd and unlink the .lock; on a
\* closed fd closeSync throws and the unlink does not run.  The handle then
\* goes out of scope.
Release(w) ==
  /\ h[w].url # 0
  /\ tc[w].st = "idle"
  /\ IF closeSyncOk(w)
     THEN lockF' = [lockF EXCEPT ![h[w].url] = 0]
     ELSE lockF' = lockF
  /\ h' = [h EXCEPT ![w] = NoHandle]
  /\ UNCHANGED <<doneF, everDone, tc, ret>>

\* complete() on a handle the caller keeps (lines 136-138)
HandleComplete(w) ==
  /\ Complete(w)
  /\ hc' = [w |-> w, op |-> "complete", closed |-> ~h[w].fd]

\* release() on a handle the caller keeps (line 150): close the fd and unlink
\* lockPath; on a closed fd closeSync throws and the unlink does not run
HandleRelease(w) ==
  /\ h[w].url # 0
  /\ tc[w].st = "idle"
  /\ IF closeSyncOk(w)
     THEN lockF' = [lockF EXCEPT ![h[w].url] = 0]
     ELSE lockF' = lockF
  /\ h' = [h EXCEPT ![w].fd = FALSE]
  /\ hc' = [w |-> w, op |-> "release", closed |-> ~h[w].fd]
  /\ UNCHANGED <<doneF, everDone, tc, ret>>

\* a handle that complete() or release() has been called on goes out of scope
HandleDrop(w) ==
  /\ h[w].url # 0
  /\ ~h[w].fd
  /\ tc[w].st = "idle"
  /\ h' = [h EXCEPT ![w] = NoHandle]
  /\ UNCHANGED <<lockF, doneF, everDone, tc, ret, hc>>

\* tryClaim by any worker, and complete() and release() in any order and
\* number on the handles it returned
HandleNext ==
  \/ \E w \in Workers, u \in Urls : TryClaimBegin(w, u) /\ UNCHANGED LedgerFrame
  \/ \E w \in Workers : TryClaimBusy(w) /\ UNCHANGED LedgerFrame
  \/ \E w \in Workers : TryClaimExists(w) /\ UNCHANGED LedgerFrame
  \/ \E w \in Workers : TryClaimHardError(w) /\ UNCHANGED LedgerFrame
  \/ \E w \in Workers : TryClaimWriteFails(w) /\ UNCHANGED LedgerFrame
  \/ \E w \in Workers : TryClaimCreate(w) /\ UNCHANGED LedgerFrame
  \/ \E w \in Workers : HandleComplete(w) /\ UNCHANGED HandleFrame
  \/ \E w \in Workers : HandleRelease(w) /\ UNCHANGED HandleFrame
  \/ \E w \in Workers : HandleDrop(w) /\ UNCHANGED HandleFrame

LedgerNext ==
  \/ \E w \in Workers, u \in Urls : TryClaimBegin(w, u) /\ UNCHANGED LedgerFrame
  \/ \E w \in Workers : TryClaimBusy(w) /\ UNCHANGED LedgerFrame
  \/ \E w \in Workers : TryClaimExists(w) /\ UNCHANGED LedgerFrame
  \/ \E w \in Workers : TryClaimHardError(w) /\ UNCHANGED LedgerFrame
  \/ \E w \in Workers : TryClaimWriteFails(w) /\ UNCHANGED LedgerFrame
  \/ \E w \in Workers : TryClaimCreate(w) /\ UNCHANGED LedgerFrame
  \/ \E w \in Workers : Complete(w) /\ UNCHANGED LedgerFrame
  \/ \E w \in Workers : Release(w) /\ UNCHANGED LedgerFrame

\* ---------------------------------------------------- bucketed frontier
\* hashUrl(raw) % parts, line 239
hashBucket(u) == u % NBuckets

\* acceptFn, the crawl loop's (raw) => !!acceptAndNormalize(raw, origin): the
\* last URL of the run is off-origin
acceptFn(u) == u # NUrls

\* Buffer.byteLength(line + '\n'): URL u is a string of u bytes
lineBytes(u) == u + 1

\* fs.statSync(file).size, buf.length
RECURSIVE fileSize(_)
fileSize(f) == IF f = <<>> THEN 0 ELSE lineBytes(Head(f)) + fileSize(Tail(f))

SeqRange(f) == {f[i] : i \in 1..Len(f)}

\* bucketPendingBytes, lines 179-186: max(0, size - pos)
bucketPendingBytes(cur, r) ==
  IF fileSize(bfile[r]) > cur[r] THEN fileSize(bfile[r]) - cur[r] ELSE 0

BucketsInit ==
  /\ bfile = [r \in Buckets |-> <<>>]
  /\ cursor = [r \in Buckets |-> 0]
  /\ rotatedF = [r \in Buckets |-> {}]
  /\ cn = [w |-> 0, res |-> "none", r |-> 0]

\* a set of URLs as a list, smallest first
RECURSIVE AsList(_)
AsList(S) ==
  IF S = {} THEN <<>>
  ELSE LET u == CHOOSE x \in S : \A y \in S : x <= y IN <<u>> \o AsList(S \ {u})

\* the URL lists a caller hands to appendToBuckets: duplicate-free, as the
\* crawl loop's Array.from(new Set(discoveries)) at line 907, of one to
\* MaxAppend URLs, with or without an empty entry (0) in front
UrlLists ==
  {AsList(S) : S \in {T \in SUBSET Urls : T # {} /\ Cardinality(T) <= MaxAppend}}
AppendInputs == UrlLists \cup {<<0>> \o urls : urls \in UrlLists}

\* appendToBuckets, lines 236-242, with the whole batch routed by its first
\* entry
perBucketOfFirst(urls, r) ==
  IF hashBucket(Head(urls)) = r THEN SelectSeq(urls, LAMBDA u : u # 0) ELSE <<>>

\* appendToBuckets, lines 236-242: the URLs of the call routed to bucket r;
\* line 238 skips an empty entry
perBucket(urls, r) == SelectSeq(urls, LAMBDA u : u # 0 /\ hashBucket(u) = r)

\* appendToBuckets, lines 246-252: the bucket file is over the cap and is
\* renamed to a timestamped sibling
Rotates(r) == fileSize(bfile[r]) > MC_BUCKET_MAX_BYTES

\* appendToBuckets, lines 233-257.  The offset file is not touched.
appendToBuckets(urls) ==
  /\ bfile' = [r \in Buckets |->
                 IF perBucket(urls, r) = <<>> THEN bfile[r]
                 ELSE (IF Rotates(r) THEN <<>> ELSE bfile[r]) \o perBucket(urls, r)]
  /\ rotatedF' = [r \in Buckets |->
                    IF perBucket(urls, r) # <<>> /\ Rotates(r)
                    THEN rotatedF[r] \cup SeqRange(bfile[r])
                    ELSE rotatedF[r]]

\* claimNextBucket, lines 288-296: the lines of the file from byte pos on with
\* their byte lengths; a line cut by pos is a fragment, no URL (url 0)
RECURSIVE tailLines(_, _)
tailLines(f, pos) ==
  IF f = <<>> THEN <<>>
  ELSE IF pos >= lineBytes(Head(f)) THEN tailLines(Tail(f), pos - lineBytes(Head(f)))
  ELSE IF pos = 0
       THEN <<[url |-> Head(f), inc |-> lineBytes(Head(f))]>> \o tailLines(Tail(f), 0)
       ELSE <<[url |-> 0, inc |-> lineBytes(Head(f)) - pos]>> \o tailLines(Tail(f), 0)

RECURSIVE sumInc(_, _)
sumInc(lines, i) == IF i = 0 THEN 0 ELSE lines[i].inc + sumInc(lines, i - 1)

\* tryClaim inside one claimNextBucket call returns a claim: no .done, and
\* the exclusive create finds no .lock
Claimable(u) == ~DoneExists(u) /\ ~OpenEEXIST(u)

\* claimNextBucket, line 297: "advanced += inc" reads a variable that is
\* declared nowhere in the module, so the first pass of the loop raises
\* ReferenceError
ScanCompletes == FALSE
ScanRaises == TRUE

\* claimNextBucket, lines 263-319, on cursor value cur of bucket r: how the
\* call ends, the URL it claims and the cursor it leaves.
claimNextBucket(cur, r) ==
  LET size == fileSize(bfile[r])
      pos == IF cur > size THEN size ELSE cur
  IN IF pos >= size THEN [res |-> "null", url |-> 0, cursor |-> pos]
     ELSE IF ScanRaises THEN [res |-> "raised", url |-> 0, cursor |-> pos]
     ELSE LET lines == tailLines(bfile[r], pos)
              hits == {i \in 1..Len(lines) :
                         /\ lines[i].url # 0
                         /\ acceptFn(lines[i].url)
                         /\ Claimable(lines[i].url)}
          IN IF hits = {} THEN [res |-> "null", url |-> 0, cursor |-> pos]
             ELSE LET i == CHOOSE j \in hits : \A k \in hits : j <= k
                  IN [res |-> "claim", url |-> lines[i].url,
                      cursor |-> pos + sumInc(lines, i)]

\* claimNextAnyBucket, lines 331-333: the donors, most pending bytes first
RECURSIVE donorList(_, _)
donorList(cur, rs) ==
  IF rs = {} THEN <<>>
  ELSE LET r == CHOOSE x \in rs : \A y \in rs :
                  \/ bucketPendingBytes(cur, x) > bucketPendingBytes(cur, y)
                  \/ bucketPendingBytes(cur, x) = bucketPendingBytes(cur, y) /\ x <= y
       IN <<r>> \o donorList(cur, rs \ {r})

\* claimNextAnyBucket, lines 335-342: claimNextBucket on each donor in turn
RECURSIVE stealFrom(_, _)
stealFrom(cur, donors) ==
  IF donors = <<>> THEN [res |-> "null", url |-> 0, cur |-> cur, r |-> 0]
  ELSE LET o == claimNextBucket(cur[Head(donors)], Head(donors))
           cur2 == [cur EXCEPT ![Head(donors)] = o.cursor]
       IN IF o.res = "null" THEN stealFrom(cur2, Tail(donors))
          ELSE [res |-> o.res, url |-> o.url, cur |-> cur2, r |-> Head(donors)]

\* claimNextAnyBucket, lines 325-343
claimNextAnyBucket(startR) ==
  LET first == claimNextBucket(cursor[startR], startR)
      cur1 == [cursor EXCEPT ![startR] = first.cursor]
  IN IF first.res # "null"
     THEN [res |-> first.res, url |-> first.url, cur |-> cur1, r |-> startR]
     ELSE stealFrom(cur1, donorList(cur1,
            {r \in Buckets : r # startR /\ bucketPendingBytes(cur1, r) > 0}))

\* what a returned claim does to the ledger: tryClaim's exclusive create, GC
\* and handle (lines 113-151), none of it when the call returned no claim
TakeClaim(w, res, u) ==
  IF res = "claim"
  THEN /\ \E victims \in GcVictims(doneF) :
            /\ doneF' = doneF \ victims
            /\ lockF' = locksAfterGc([lockF EXCEPT ![u] = w], victims)
       /\ h' = [h EXCEPT ![w] = [url |-> u, fd |-> TRUE]]
  ELSE UNCHANGED <<lockF, doneF, h>>

\* a caller appends a URL list
AppendCall(urls) ==
  /\ appendToBuckets(urls)
  /\ UNCHANGED <<cursor, cn, ledgerVars>>

\* a caller without a claim in hand calls claimNextBucket on bucket r
ClaimNext(w, r) ==
  /\ h[w].url = 0
  /\ tc[w].st = "idle"
  /\ LET o == claimNextBucket(cursor[r], r)
     IN /\ cursor' = [cursor EXCEPT ![r] = o.cursor]
        /\ cn' = [w |-> w, res |-> o.res, r |-> r]
        /\ TakeClaim(w, o.res, o.url)
  /\ UNCHANGED <<bfile, rotatedF, everDone, tc, ret>>

\* a caller without a claim in hand calls claimNextAnyBucket from bucket startR
ClaimNextAny(w, startR) ==
  /\ h[w].url = 0
  /\ tc[w].st = "idle"
  /\ LET o == claimNextAnyBucket(startR)
     IN /\ cursor' = o.cur
        /\ cn' = [w |-> w, res |-> o.res, r |-> o.r]
        /\ TakeClaim(w, o.res, o.url)
  /\ UNCHANGED <<bfile, rotatedF, everDone, tc, ret>>

BucketsNext ==
  \/ \E urls \in AppendInputs : AppendCall(urls) /\ UNCHANGED BucketsFrame
  \/ \E w \in Workers, r \in Buckets : ClaimNext(w, r) /\ UNCHANGED BucketsFrame
  \/ \E w \in Workers, r \in Buckets : ClaimNextAny(w, r) /\ UNCHANGED BucketsFrame

\* ------------------------------------------------------ round-trip loop
\* Append(seeds); while (claim = ClaimNext over the buckets) { claim.complete() }
\* run by one caller on a fresh frontier and ledger.
RoundTripInit == rt = "seed"

\* every URL that has been appended: in a bucket file or in a rotated sibling
Appended == UNION {SeqRange(bfile[r]) \cup rotatedF[r] : r \in Buckets}

\* the caller appends seeds
RtAppend(urls) ==
  /\ rt = "seed"
  /\ appendToBuckets(urls)
  /\ UNCHANGED <<cursor, cn, ledgerVars, rt>>

\* one turn of the loop: claimNextAnyBucket from bucket 0, then complete()
\* on the claim it returned (lines 136-138: the .lock becomes the .done)
RtStep ==
  /\ rt \in {"seed", "loop"}
  /\ LET o == claimNextAnyBucket(0)
     IN /\ cursor' = o.cur
        /\ cn' = [w |-> 1, res |-> o.res, r |-> o.r]
        /\ IF o.res = "claim"
           THEN /\ \E victims \in GcVictims(doneF) :
                     doneF' = (doneF \ victims) \cup {o.url}
                /\ everDone' = everDone \cup {o.url}
                /\ rt' = "loop"
           ELSE /\ UNCHANGED <<doneF, everDone>>
                /\ rt' = IF o.res = "null" THEN "ended" ELSE "raised"
  /\ UNCHANGED <<bfile, rotatedF, lockF, tc, h, ret>>

RoundTripNext ==
  \/ \E urls \in AppendInputs : RtAppend(urls) /\ UNCHANGED RoundTripFrame
  \/ RtStep /\ UNCHANGED RoundTripFrame


\* ------------------------------------------- fetch stage, not entered
Slots == 1..FetchConc
NoTask == [st |-> "none", seed |-> 0, final |-> 0, finalClaim |-> FALSE]

\* no worker in the fetch loop, no stop flag, an empty locks directory
FetchOff ==
  /\ stopFlag = FALSE
  /\ fetchLock = [u \in Urls |-> 0]
  /\ fw = [w \in Workers |-> [pc |-> "off", i |-> 0, toFetch |-> <<>>, stopped |-> FALSE,
                              pathPrefix |-> TRUE, dropCache |-> FALSE,
                              tasks |-> [k \in Slots |-> NoTask]]]
  /\ recOnce = {}
  /\ recAgain = {}

\* no single frontier file, no worker in the legacy loop
LegacyOff ==
  /\ ffile = <<>>
  /\ lw = [w \in Workers |-> [pc |-> "off", idleCycles |-> 0, results |-> {}]]

\* no part file written
NoPart == [there |-> FALSE, urls |-> <<>>]

\* no input file given, no sniffer, gate or mode resolution run
NoFile == [exists |-> FALSE, cols |-> 0, rows |-> <<>>]
NothingRun == [op |-> "none"]
PreflightOff ==
  /\ inputFile = NoFile
  /\ pf = NothingRun

\* telemetry.js, lines 11-12, 151-160, 1519: the server as it starts, with
\* no config.json; resp is the answer to its last request
NoConfig == [there |-> FALSE, valid |-> FALSE, outputs |-> {}, started |-> FALSE]
HubStart ==
  [APPLIED |-> FALSE, STARTED |-> FALSE, STOP_REQUESTED |-> FALSE,
   mode |-> "init", currentIndex |-> 0, urlsFound |-> 0,
   threads |-> {}, buckets |-> {}, tree |-> {}, events |-> 0, resp |-> "none"]
\* no URL is being normalized
NoUrl == [host |-> "", path |-> <<>>, keys |-> {}, hash |-> FALSE]
NormOff == nz = [u |-> NoUrl, keepPageParam |-> FALSE, calls |-> 0, prev |-> NoUrl, out |-> NoUrl]

\* the orchestrator is not in its discovery bootstrap
NoScan == [pc |-> "off", sections |-> {}, rootUrls |-> {}, filtered |-> {}, failed |-> FALSE]
SeedOff == sd = NoScan

\* no update sent to the hub
NoTraffic == [inflight |-> <<>>, nsent |-> 0, sum |-> 0, got |-> [type |-> "none", delta |-> 0, ev |-> FALSE]]
TelOff == tel = NoTraffic

\* no worker inside run()
NoRun == [pc |-> "off", inputExists |-> FALSE, existenceOnly |-> FALSE, urls |-> 0, i |-> 0,
          phases |-> <<>>]
LifeOff == wl = [w \in Workers |-> NoRun]

HubOff ==
  /\ hub = HubStart
  /\ cfgFile = NoConfig

\* no orchestrator run: nothing spawned, no master list, no step reported
RunOff ==
  /\ orch = [path |-> "none", pc |-> "off", i |-> 0, finished |-> 0, idx |-> 0,
             running |-> 0, launching |-> 0, ntasks |-> 0]
  /\ child = [t \in Tasks |-> "none"]
  /\ partF = [t \in Tasks |-> NoPart]
  /\ master = <<>>
  /\ appended = [t \in Tasks |-> 0]
  /\ steps = <<>>
  /\ finalList = {}

\* ---------------------------------------------------- bucketed crawl loop
\* crawlSite, lines 841-844: worker w is me = w - 1 of W = NWorkers; its
\* preferred buckets are me, me + W, ...
preferred(w) == AsList({r \in Buckets : r % NWorkers = w - 1})
allBuckets == AsList(Buckets)

RECURSIVE SumOver(_, _)
SumOver(f, S) ==
  IF S = {} THEN 0
  ELSE LET x == CHOOSE y \in S : TRUE IN f[x] + SumOver(f, S \ {x})

\* countLocks, lines 503-509: the .lock files in disco-locks
countLocks == Cardinality({u \in Urls : lockF[u] # 0})

\* frontierSnapshot, lines 511-527: total bucket bytes and lock count.  The
\* newest mtime is left out: in this loop bucket files are written only by
\* appendToBuckets, which changes the byte total as well.
frontierSnapshot ==
  <<SumOver([r \in Buckets |-> fileSize(bfile[r])], Buckets), countLocks>>

\* bucketStats, lines 530-544: the non-empty lines of all bucket files
bucketStatsLines == SumOver([r \in Buckets |-> Len(bfile[r])], Buckets)

\* sum over the buckets of bucketPendingBytes
sumPendingBytes ==
  SumOver([r \in Buckets |-> bucketPendingBytes(cursor, r)], Buckets)

\* acquireBucketOwner, line 204: fs.openSync(ownerPath, 'wx') fails, the
\* owner file is there
OwnerNonExclusive(r) == FALSE
OwnerEEXIST(r) == owner[r] # 0

\* acquireBucketOwner, lines 210-213: release() closes and unlinks the owner
\* file; and a release that leaves the file
releaseKept(r) == owner
releaseOwner(r) == [owner EXCEPT ![r] = 0]

\* the top of the main loop, lines 941-947: the preferred pass, or the
\* stealing pass at once for a worker without preferred buckets
StartCycle(c, w) ==
  [c EXCEPT !.pc = "acq", !.idx = 1,
            !.pass = IF preferred(w) = <<>> THEN "steal" ELSE "pref"]

passList(c, w) == IF c.pass = "pref" THEN preferred(w) ELSE allBuckets

\* tryOneBucket returned false: the next bucket of the pass, then the
\* stealing pass (lines 950-954), then the idle check (line 958)
Advance(c, w) ==
  IF c.idx < Len(passList(c, w)) THEN [c EXCEPT !.pc = "acq", !.idx = @ + 1]
  ELSE IF c.pass = "pref" THEN [c EXCEPT !.pc = "acq", !.pass = "steal", !.idx = 1]
  ELSE [c EXCEPT !.pc = "check"]

CrawlStart(w) ==
  StartCycle([pc |-> "acq", pass |-> "pref", idx |-> 1, lease |-> {}, denied |-> {},
              localIdle |-> 0, idleCycles |-> 0, stableCycles |-> 0,
              lastSnap |-> <<>>], w)

Stopped(pc) == pc \in {"exit-empty", "exit-settled", "error", "crashed"}

\* the frontier as the orchestrator's seedBuckets leaves it before the workers
\* start: the seeds appended to empty bucket files, no offset files, an empty
\* disco-locks directory, no owner files
CrawlInit ==
  /\ LedgerInit
  /\ \E seeds \in AppendInputs \cup {<<>>} :
       bfile = [r \in Buckets |-> perBucket(seeds, r)]
  /\ cursor = [r \in Buckets |-> 0]
  /\ rotatedF = [r \in Buckets |-> {}]
  /\ cn = [w |-> 0, res |-> "none", r |-> 0]
  /\ rt = "seed"
  /\ owner = [r \in Buckets |-> 0]
  /\ cw = [w \in Workers |-> CrawlStart(w)]
  /\ FetchOff
  /\ LegacyOff
  /\ RunOff /\ PreflightOff /\ HubOff /\ NormOff /\ SeedOff /\ TelOff /\ LifeOff

\* tryOneBucket, lines 847-853: acquireBucketOwner on the pass's next bucket;
\* refused, tryOneBucket returns false
CrawlAcquire(w) ==
  LET c == cw[w]
      r == passList(c, w)[c.idx]
  IN /\ c.pc = "acq"
     /\ IF OwnerEEXIST(r)
        THEN /\ cw' = [cw EXCEPT ![w] = [Advance(c, w) EXCEPT !.denied = {r}]]
             /\ owner' = owner
        ELSE /\ cw' = [cw EXCEPT ![w] = [c EXCEPT !.pc = "scan", !.lease = {r},
                                                  !.denied = {}, !.localIdle = 0]]
             /\ owner' = [owner EXCEPT ![r] = w]
     /\ UNCHANGED <<bucketVars, lockF, doneF, h>>

\* tryOneBucket, lines 855-872 and 930-934: one claimNextBucket call under the
\* lease.  Nothing new: localIdle++, and at LocalIdleLimit the lease is
\* released and tryOneBucket returns false.  The call throws: the finally
\* releases the lease and the exception leaves crawlSite.  (Lines 874-928
\* need a returned claim.)
CrawlScan(w) ==
  LET c == cw[w]
      r == CHOOSE x \in Buckets : x \in c.lease
      o == claimNextBucket(cursor[r], r)
  IN /\ c.pc = "scan"
     /\ cursor' = [cursor EXCEPT ![r] = o.cursor]
     /\ cn' = [w |-> w, res |-> o.res, r |-> r]
     /\ IF o.res = "null"
        THEN IF c.localIdle + 1 >= LocalIdleLimit
             THEN /\ owner' = releaseOwner(r)
                  /\ cw' = [cw EXCEPT ![w] = Advance([c EXCEPT !.lease = {}, !.localIdle = 0], w)]
             ELSE /\ owner' = owner
                  /\ cw' = [cw EXCEPT ![w] = [c EXCEPT !.localIdle = @ + 1]]
        ELSE /\ owner' = releaseOwner(r)
             /\ cw' = [cw EXCEPT ![w] = [c EXCEPT !.pc = "error", !.lease = {}]]
     /\ UNCHANGED <<bfile, rotatedF, lockF, doneF, h>>

\* crawlSite, lines 957-985: the idle tick after both passes found no work
CrawlIdle(w) ==
  LET c == cw[w]
      idle == c.idleCycles + 1
      snap == frontierSnapshot
      stable == IF snap = c.lastSnap THEN c.stableCycles + 1 ELSE 0
      d == [c EXCEPT !.idleCycles = idle, !.stableCycles = stable, !.lastSnap = snap,
                     !.denied = {}]
  IN /\ c.pc = "check"
     /\ cw' = [cw EXCEPT ![w] =
          IF /\ bucketStatsLines = 0
             /\ countLocks = 0
             /\ (stable >= StableQuiet \/ idle >= IdleQuiet)
          THEN [d EXCEPT !.pc = "exit-empty"]
          ELSE IF stable >= StableSettled THEN [d EXCEPT !.pc = "exit-settled"]
          ELSE StartCycle(d, w)]
     /\ UNCHANGED <<owner, bucketVars, lockF, doneF, h>>

\* the worker process dies; an owner file it holds stays on disk
CrawlCrash(w) ==
  /\ ~Stopped(cw[w].pc)
  /\ cw' = [cw EXCEPT ![w] = [CrawlStart(w) EXCEPT !.pc = "crashed", !.lease = cw[w].lease]]
  /\ UNCHANGED <<owner, bucketVars, lockF, doneF, h>>

CrawlNext ==
  \/ \E w \in Workers : CrawlAcquire(w) /\ UNCHANGED CrawlFrame
  \/ \E w \in Workers : CrawlScan(w) /\ UNCHANGED CrawlFrame
  \/ \E w \in Workers : CrawlIdle(w) /\ UNCHANGED CrawlFrame
  \/ \E w \in Workers : CrawlCrash(w) /\ UNCHANGED CrawlFrame

\* no worker in the crawl loop
Idle ==
  /\ owner = [r \in Buckets |-> 0]
  /\ cw = [w \in Workers |-> [CrawlStart(w) EXCEPT !.pc = "off"]]

\* ------------------------------------------------------------ fetch stage

\* stopRequested, lines 12-17
stopRequested == stopFlag

\* claimUrl, line 40: fs.openSync(f, 'wx') fails, the .lock is there
ClaimNonExclusive(locks, u) == FALSE
ClaimEEXIST(locks, u) == locks[u] # 0

\* the ways the run's URLs (normalized, in scope: lines 426-441) are sliced
\* over the workers (lines 530-534), 0 for a URL that is in no slice
FetchInputs == [{u \in Urls : acceptFn(u)} -> Workers \cup {0}]

\* worker w's slice, sorted (line 531)
SliceOf(assign, w) == AsList({u \in DOMAIN assign : assign[u] = w})

\* the workers of a run at the head of the fetch loop, each with its slice (a
\* worker with an empty slice returns before the fetch stage, lines 560-570),
\* run with or without a path prefix (cfg.pathPrefix); the locks directory is
\* empty
FetchInit ==
  /\ LedgerInit /\ BucketsInit /\ RoundTripInit /\ Idle /\ LegacyOff /\ RunOff /\ PreflightOff /\ HubOff /\ NormOff /\ SeedOff /\ TelOff /\ LifeOff
  /\ stopFlag = FALSE
  /\ fetchLock = [u \in Urls |-> 0]
  /\ \E assign \in FetchInputs, pathPrefix \in BOOLEAN :
       fw = [w \in Workers |->
               [pc |-> IF SliceOf(assign, w) = <<>> THEN "off" ELSE "run",
                i |-> 0, toFetch |-> SliceOf(assign, w), stopped |-> FALSE,
                pathPrefix |-> pathPrefix, dropCache |-> FALSE,
                tasks |-> [k \in Slots |-> NoTask]]]
  /\ recOnce = {}
  /\ recAgain = {}

\* the seeds of the batch that starts at index i (0-based), by slot
SliceSeed(f, i, k) == IF i + k <= Len(f) THEN f[i + k] ELSE 0

\* the seed locks the earlier tasks of the batch have just created
RECURSIVE StartTasks(_, _, _, _, _)
StartTasks(w, f, i, k, locks) ==
  IF k > FetchConc THEN [locks |-> locks, tasks |-> <<>>]
  ELSE LET seed == SliceSeed(f, i, k)
           got == seed # 0 /\ ~stopRequested /\ ~ClaimEEXIST(locks, seed)
           locks2 == IF got THEN [locks EXCEPT ![seed] = w] ELSE locks
           rest == StartTasks(w, f, i, k + 1, locks2)
       IN [locks |-> rest.locks,
           tasks |-> <<IF got THEN [st |-> "nav", seed |-> seed, final |-> 0,
                                    finalClaim |-> FALSE]
                       ELSE NoTask>> \o rest.tasks]

TasksOver(w) == \A k \in Slots : fw[w].tasks[k].st \in {"none", "ended"}

\* run, lines 631-644 and 771-776: Promise.all of the batch has resolved (or
\* the loop is entered), the cache is saved, and the next turn of the loop
\* runs to the first await of each of its tasks: the stop check, the slice,
\* and per task the stop check and claimUrl on the seed.  Past the last batch,
\* or with the stop flag up (phase 'stopped'), the loop is left and the worker
\* goes on to its reports and phase 'done' (line 931).
FetchBatch(w) ==
  LET c == fw[w]
      first == \A k \in Slots : c.tasks[k].st = "none"
      i == IF first THEN 0 ELSE c.i + FetchConc
      s == StartTasks(w, c.toFetch, i, 1, fetchLock)
  IN /\ c.pc = "run"
     /\ TasksOver(w)
     /\ IF i >= Len(c.toFetch)
        THEN /\ fw' = [fw EXCEPT ![w] = [c EXCEPT !.pc = "done",
                                                 !.tasks = [k \in Slots |-> NoTask]]]
             /\ fetchLock' = fetchLock
        ELSE IF stopRequested
        THEN /\ fw' = [fw EXCEPT ![w] = [c EXCEPT !.pc = "done", !.stopped = TRUE,
                                                 !.tasks = [k \in Slots |-> NoTask]]]
             /\ fetchLock' = fetchLock
        ELSE /\ fw' = [fw EXCEPT ![w] = [c EXCEPT !.i = i,
                          !.tasks = [k \in Slots |->
                             IF s.tasks[k].st = "none" /\ SliceSeed(c.toFetch, i, k) # 0
                             THEN [NoTask EXCEPT !.st = "ended"] ELSE s.tasks[k]]]]
             /\ fetchLock' = s.locks
     /\ UNCHANGED <<stopFlag, recOnce, recAgain>>

\* the per-URL task, lines 660-742: the navigation ends on final (the seed
\* itself when nothing redirects or nothing loads); the claim is upgraded to
\* the final URL when it differs from the seed, and a refused upgrade or,
\* when the run has a path prefix (line 727), a final URL out of it ends the
\* task without a record
FetchNav(w, k, final) ==
  LET t == fw[w].tasks[k]
      upgrade == final # t.seed
      refused == upgrade /\ ClaimEEXIST(fetchLock, final)
      outOfPrefix == fw[w].pathPrefix /\ ~acceptFn(final)
  IN /\ t.st = "nav"
     /\ fetchLock' = IF upgrade /\ ~refused THEN [fetchLock EXCEPT ![final] = w]
                     ELSE fetchLock
     /\ fw' = [fw EXCEPT ![w].tasks[k] =
                 [t EXCEPT !.final = final,
                           !.finalClaim = upgrade /\ ~refused,
                           !.st = IF refused \/ outOfPrefix THEN "fin" ELSE "rec"]]
     /\ UNCHANGED <<stopFlag, recOnce, recAgain>>

\* the per-URL task, lines 749-759: the page record of the final URL is
\* pushed to out and put in the cache
FetchRecord(w, k) ==
  LET t == fw[w].tasks[k]
  IN /\ t.st = "rec"
     /\ recOnce' = recOnce \cup {t.final}
     /\ recAgain' = IF t.final \in recOnce THEN recAgain \cup {t.final} ELSE recAgain
     /\ fw' = [fw EXCEPT ![w].tasks[k].st = "fin"]
     /\ UNCHANGED <<stopFlag, fetchLock>>

\* the per-URL task, lines 735 and 760-762: extractInternalLinks (or the
\* prefix guard's new URL) throws, the catch logs 'fetch fail' and no record
\* is pushed
FetchFail(w, k) ==
  LET t == fw[w].tasks[k]
  IN /\ t.st = "rec"
     /\ fw' = [fw EXCEPT ![w].tasks[k].st = "fin"]
     /\ UNCHANGED <<stopFlag, fetchLock, recOnce, recAgain>>

\* the per-URL task's finally, lines 763-768: both claims are released, which
\* unlinks their .lock files
FetchFinally(w, k) ==
  LET t == fw[w].tasks[k]
  IN /\ t.st = "fin"
     /\ fetchLock' = [u \in Urls |->
                        IF u = t.seed \/ (t.finalClaim /\ u = t.final) THEN 0
                        ELSE fetchLock[u]]
     /\ fw' = [fw EXCEPT ![w].tasks[k].st = "ended"]
     /\ UNCHANGED <<stopFlag, recOnce, recAgain>>

\* telemetry.js, POST /stop, lines 647-664: telemetry/stop.flag is written,
\* STOP_REQUESTED is set and config.json is rewritten with started = false
StopRequest ==
  /\ stopFlag' = TRUE
  /\ hub' = [hub EXCEPT !.STOP_REQUESTED = TRUE, !.resp = "stop"]
  /\ cfgFile' = IF cfgFile.there THEN [cfgFile EXCEPT !.started = FALSE]
                ELSE [there |-> TRUE, valid |-> FALSE, outputs |-> {}, started |-> FALSE]

FetchNext ==
  \/ \E w \in Workers : FetchBatch(w) /\ UNCHANGED FetchFrame
  \/ \E w \in Workers, k \in Slots, final \in Urls : FetchNav(w, k, final) /\ UNCHANGED FetchFrame
  \/ \E w \in Workers, k \in Slots : FetchRecord(w, k) /\ UNCHANGED FetchFrame
  \/ \E w \in Workers, k \in Slots : FetchFail(w, k) /\ UNCHANGED FetchFrame
  \/ \E w \in Workers, k \in Slots : FetchFinally(w, k) /\ UNCHANGED FetchFrame
  \/ StopRequest /\ UNCHANGED StopFrame


\* ------------------------------------------------ single-file crawl loop
\* claimNext, line 162: (hashUrl(url) % partTotal) !== partIndex, worker w
\* being partIndex w - 1 of NWorkers
hashPart(u) == u % NWorkers

\* claimNext, lines 159-167: the lines of the frontier file on which this
\* worker's tryClaim returns a claim
LegacyHits(w) ==
  {i \in 1..Len(ffile) :
     /\ acceptFn(ffile[i])
     /\ hashPart(ffile[i]) = w - 1
     /\ Claimable(ffile[i])}

\* the workers of a run at the head of the legacy loop over a seeded frontier
\* file (seedFrontier, lines 87-90) and a fresh disco-locks directory
LegacyInit ==
  /\ LedgerInit /\ BucketsInit /\ RoundTripInit /\ Idle /\ FetchOff /\ RunOff /\ PreflightOff /\ HubOff /\ NormOff /\ SeedOff /\ TelOff /\ LifeOff
  /\ ffile \in UrlLists
  /\ lw = [w \in Workers |-> [pc |-> "claim", idleCycles |-> 0, results |-> {}]]

\* the head of the loop, line 997: while (results.size < maxPages)
LegacyTop(c) ==
  IF Cardinality(c.results) < maxPages THEN [c EXCEPT !.pc = "claim"]
  ELSE [c EXCEPT !.pc = "exit"]

\* crawlSite, lines 998-1018: one claimNext call.  No claim: idleCycles++, and
\* at LegacyIdleExit the loop is left.
LegacyClaim(w) ==
  LET c == lw[w]
      hits == LegacyHits(w)
  IN /\ c.pc = "claim"
     /\ h[w].url = 0
     /\ IF hits = {}
        THEN /\ lw' = [lw EXCEPT ![w] =
                  IF c.idleCycles + 1 >= LegacyIdleExit
                  THEN [c EXCEPT !.idleCycles = @ + 1, !.pc = "exit"]
                  ELSE [c EXCEPT !.idleCycles = @ + 1]]
             /\ UNCHANGED <<lockF, doneF, h>>
        ELSE /\ lw' = [lw EXCEPT ![w] = [c EXCEPT !.idleCycles = 0, !.pc = "page"]]
             /\ TakeClaim(w, "claim", ffile[CHOOSE i \in hits : \A j \in hits : i <= j])
     /\ UNCHANGED <<everDone, ffile, stopFlag>>

\* crawlSite, lines 1020-1063, the page loads: the URL joins results, the
\* discoveries are appended to the frontier file, complete() renames the
\* .lock to .done, and release() in the finally finds the fd closed
LegacyPage(w, disc) ==
  LET c == lw[w]
      u == h[w].url
  IN /\ c.pc = "page"
     /\ Len(ffile) + Len(disc) <= MaxFrontier
     /\ \A i \in 1..Len(disc) : acceptFn(disc[i])
     /\ ffile' = ffile \o disc
     /\ lockF' = [lockF EXCEPT ![u] = 0]
     /\ doneF' = doneF \cup {u}
     /\ everDone' = everDone \cup {u}
     /\ h' = [h EXCEPT ![w] = NoHandle]
     /\ lw' = [lw EXCEPT ![w] = LegacyTop([c EXCEPT !.results = @ \cup {u}])]
     /\ UNCHANGED stopFlag

\* crawlSite, lines 1058-1063, page.goto throws: the catch logs, and release()
\* in the finally unlinks the .lock
LegacyPageFail(w) ==
  LET c == lw[w]
  IN /\ c.pc = "page"
     /\ lockF' = [lockF EXCEPT ![h[w].url] = 0]
     /\ h' = [h EXCEPT ![w] = NoHandle]
     /\ lw' = [lw EXCEPT ![w] = LegacyTop(c)]
     /\ UNCHANGED <<doneF, everDone, ffile, stopFlag>>

LegacyNext ==
  \/ \E w \in Workers : LegacyClaim(w) /\ UNCHANGED LegacyFrame
  \/ \E w \in Workers, disc \in UrlLists \cup {<<>>} :
       LegacyPage(w, disc) /\ UNCHANGED LegacyFrame
  \/ \E w \in Workers : LegacyPageFail(w) /\ UNCHANGED LegacyFrame
  \/ StopRequest /\ UNCHANGED StopFrame

\* ------------------------------------------------------------ orchestrator
\* the part a frontier or section worker leaves behind when it exits: its
\* URL list (run.js lines 547-554), or nothing when it died before writing
PartOutcomes ==
  {NoPart} \cup {[there |-> TRUE, urls |-> AsList(S)] : S \in SUBSET {u \in Urls : acceptFn(u)}}

\* the orchestrator about to spawn its workers, on the explicit-URL path
\* (lines 238-260) or on the discovery path (lines 576-624) with the frontier
\* workers and ns follow-up section tasks; urls-final.txt and stale parts
\* have been removed (lines 228-234)
RunInit ==
  /\ LedgerInit /\ BucketsInit /\ RoundTripInit /\ Idle /\ LegacyOff /\ PreflightOff /\ HubOff /\ NormOff /\ SeedOff /\ TelOff /\ LifeOff
  /\ stopFlag = FALSE
  /\ fetchLock = [u \in Urls |-> 0]
  /\ recOnce = {}
  /\ recAgain = {}
  /\ \E path \in {"explicit", "discovery"}, assign \in FetchInputs, ns \in 0..MaxSections :
       /\ orch = [path |-> path,
                  pc |-> IF path = "explicit" THEN "spawn" ELSE "pool",
                  i |-> 0, finished |-> 0, idx |-> 0, running |-> 0,
                  launching |-> IF path = "explicit" THEN 0 ELSE NWorkers,
                  ntasks |-> IF path = "explicit" THEN NWorkers ELSE NWorkers + ns]
       /\ fw = [w \in Workers |->
                  [pc |-> "off", i |-> 0,
                   toFetch |-> IF path = "explicit" THEN SliceOf(assign, w) ELSE <<>>,
                   stopped |-> FALSE, pathPrefix |-> TRUE, dropCache |-> FALSE,
                   tasks |-> [k \in Slots |-> NoTask]]]
  /\ child = [t \in Tasks |-> "none"]
  /\ partF = [t \in Tasks |-> NoPart]
  /\ master = <<>>
  /\ appended = [t \in Tasks |-> 0]
  /\ steps = <<>>
  /\ finalList = {}

\* fs.appendFileSync(master, urls.map(u => `${u}\n`).join('')), lines 303, 668
AppendNothing(m, urls) == m
AppendPart(m, urls) == m \o urls

\* mergeManifestDedup(master, outDir): the master list reduced to a set
mergeManifestDedup(m) == SeqRange(m)

\* "if (finished === parts)", line 316
SomeFinished(finished, parts) == finished >= 1
AllFinished(finished, parts) == finished = parts

\* "else if (running === 0)" after "if (idx < tasks.length)", lines 675-677
PoolDrained(idx, ntasks, running) == idx >= ntasks /\ running = 0

\* the child processes c.kill('SIGINT') ends (lines 311, 680): the children
\* still in the set whose process is alive
Alive(t) ==
  /\ child[t] = "run"
  /\ t \in Workers => fw[t].pc \in {"boot", "run"}

\* a killed worker runs no finally block: its tasks are gone and their .lock
\* files stay
KillAll ==
  [w \in Workers |->
     IF Alive(w)
     THEN [fw[w] EXCEPT !.pc = "killed", !.tasks = [k \in Slots |-> NoTask]]
     ELSE fw[w]]

\* finalizeSitemap, lines 321-411, and lines 688-727: merge-urls, cleanup
\* (cleanArtifacts defaults to true: the parts, urls-final.txt, frontier,
\* disco-locks and locks are removed) and done, with no await in between
Finalize ==
  /\ steps' = steps \o <<"merge-urls", "cleanup", "done">>
  /\ finalList' = mergeManifestDedup(master)
  /\ master' = <<>>
  /\ fetchLock' = [u \in Urls |-> 0]

\* the spawn loop of the explicit-URL path, lines 262-292: one turn, past its
\* await stopRequested()
OrchSpawn ==
  /\ orch.path = "explicit"
  /\ orch.pc = "spawn"
  /\ IF stopRequested
     THEN /\ orch' = [orch EXCEPT !.pc = "spawned"]
          /\ UNCHANGED <<child, fw>>
     ELSE LET w == orch.i + 1
          IN /\ orch' = [orch EXCEPT !.i = w,
                                     !.pc = IF w = NWorkers THEN "spawned" ELSE "spawn"]
             /\ child' = [child EXCEPT ![w] = "run"]
             /\ fw' = [fw EXCEPT ![w].pc = "boot"]
  /\ UNCHANGED <<partF, master, appended, steps, finalList, stopFlag, fetchLock,
                 recOnce, recAgain>>

\* run, lines 530-570: the worker writes its URL slice to its part file and
\* enters the fetch stage, or returns at once on an empty slice
WorkerBoot(w) ==
  /\ fw[w].pc = "boot"
  /\ partF' = [partF EXCEPT ![w] = [there |-> TRUE, urls |-> fw[w].toFetch]]
  /\ fw' = [fw EXCEPT ![w].pc = IF fw[w].toFetch = <<>> THEN "done" ELSE "run"]
  /\ UNCHANGED <<orch, child, master, appended, steps, finalList, stopFlag, fetchLock,
                 recOnce, recAgain>>

\* child.on('exit'), lines 293-309, up to its await stopRequested(): the
\* child leaves the set, finished++, and its part, when there is one, is
\* appended to the master list
ExitAppend(w) ==
  /\ orch.path = "explicit"
  /\ child[w] = "run"
  /\ fw[w].pc \in {"done", "killed"}
  /\ orch' = [orch EXCEPT !.finished = @ + 1]
  /\ child' = [child EXCEPT ![w] = "await"]
  /\ IF partF[w].there
     THEN /\ master' = AppendPart(master, partF[w].urls)
          /\ appended' = [appended EXCEPT ![w] = @ + 1]
     ELSE UNCHANGED <<master, appended>>
  /\ UNCHANGED <<partF, steps, finalList, stopFlag, fetchVars>>

\* child.on('exit'), lines 310-316, past the await: with the stop flag up the
\* remaining children are killed and the handler returns; otherwise the last
\* handler finalizes
ExitDecide(w) ==
  /\ orch.path = "explicit"
  /\ child[w] = "await"
  /\ child' = [child EXCEPT ![w] = "over"]
  /\ IF stopRequested
     THEN /\ fw' = KillAll
          /\ UNCHANGED <<master, steps, finalList, fetchLock>>
     ELSE IF AllFinished(orch.finished, NWorkers)
     THEN /\ Finalize
          /\ fw' = fw
     ELSE UNCHANGED <<master, steps, finalList, fetchLock, fw>>
  /\ UNCHANGED <<orch, partF, appended, stopFlag, recOnce, recAgain>>

\* launchNext, lines 626-651, past its await stopRequested(): the next task
\* is forked, unless Stop was requested or no task is left
LaunchNext ==
  /\ orch.path = "discovery"
  /\ orch.launching > 0
  /\ IF stopRequested \/ orch.idx >= orch.ntasks
     THEN /\ orch' = [orch EXCEPT !.launching = @ - 1]
          /\ child' = child
     ELSE /\ orch' = [orch EXCEPT !.launching = @ - 1, !.idx = @ + 1, !.running = @ + 1]
          /\ child' = [child EXCEPT ![orch.idx + 1] = "run"]
  /\ UNCHANGED <<partF, master, appended, steps, finalList, stopFlag, fetchVars>>

\* a frontier or section worker runs and exits, leaving its part
DiscoWorkerExit(t, p) ==
  /\ orch.path = "discovery"
  /\ child[t] = "run"
  /\ child' = [child EXCEPT ![t] = "dead"]
  /\ partF' = [partF EXCEPT ![t] = p]
  /\ UNCHANGED <<orch, master, appended, steps, finalList, stopFlag, fetchVars>>

\* child.on('exit'), lines 653-677: running--, the part is appended, and
\* either the next task is launched, or, all tasks launched and none
\* running, the handler goes on to its await stopRequested()
PoolExitAppend(t) ==
  /\ orch.path = "discovery"
  /\ child[t] = "dead"
  /\ IF partF[t].there
     THEN /\ master' = AppendPart(master, partF[t].urls)
          /\ appended' = [appended EXCEPT ![t] = @ + 1]
     ELSE UNCHANGED <<master, appended>>
  /\ IF orch.idx < orch.ntasks
     THEN /\ orch' = [orch EXCEPT !.running = @ - 1, !.launching = @ + 1]
          /\ child' = [child EXCEPT ![t] = "over"]
     ELSE /\ orch' = [orch EXCEPT !.running = @ - 1]
          /\ child' = [child EXCEPT ![t] =
               IF PoolDrained(orch.idx, orch.ntasks, orch.running - 1)
               THEN "await" ELSE "over"]
  /\ UNCHANGED <<partF, steps, finalList, stopFlag, fetchVars>>

\* child.on('exit'), lines 679-727, past the await: with the stop flag up the
\* final step is reported and merge and cleanup are skipped; otherwise
\* merge-urls, cleanup, done
PoolExitDecide(t) ==
  /\ orch.path = "discovery"
  /\ child[t] = "await"
  /\ child' = [child EXCEPT ![t] = "over"]
  /\ IF stopRequested
     THEN /\ steps' = steps \o <<"done">>
          /\ UNCHANGED <<master, finalList, fetchLock>>
     ELSE Finalize
  /\ UNCHANGED <<orch, partF, appended, stopFlag, fw, recOnce, recAgain>>

RunNext ==
  \/ OrchSpawn /\ UNCHANGED RunFrame
  \/ \E w \in Workers : WorkerBoot(w) /\ UNCHANGED RunFrame
  \/ \E w \in Workers : FetchBatch(w) /\ UNCHANGED FetchFrame
  \/ \E w \in Workers, k \in Slots, final \in Urls : FetchNav(w, k, final) /\ UNCHANGED FetchFrame
  \/ \E w \in Workers, k \in Slots : FetchRecord(w, k) /\ UNCHANGED FetchFrame
  \/ \E w \in Workers, k \in Slots : FetchFail(w, k) /\ UNCHANGED FetchFrame
  \/ \E w \in Workers, k \in Slots : FetchFinally(w, k) /\ UNCHANGED FetchFrame
  \/ \E w \in Workers : ExitAppend(w) /\ UNCHANGED RunFrame
  \/ \E w \in Workers : ExitDecide(w) /\ UNCHANGED RunFrame
  \/ LaunchNext /\ UNCHANGED RunFrame
  \/ \E t \in Tasks, p \in PartOutcomes : DiscoWorkerExit(t, p) /\ UNCHANGED RunFrame
  \/ \E t \in Tasks : PoolExitAppend(t) /\ UNCHANGED RunFrame
  \/ \E t \in Tasks : PoolExitDecide(t) /\ UNCHANGED RunFrame
  \/ StopRequest /\ UNCHANGED StopFrame

\* ------------------------------- input classifier, output gate, run mode
\* a cell of an input line: an absolute URL of the site, a text shorter than
\* the title limit, a longer text, or "" for a cell the line does not have
CellKinds == {"url", "short", "long"}
CellLen(c) ==
  CASE c = "url" -> UrlLen
    [] c = "short" -> ShortLen
    [] c = "long" -> LongLen
    [] OTHER -> 0

KindRank(c) == CASE c = "url" -> 0 [] c = "short" -> 1 [] OTHER -> 2
LineRank(r) == 3 * KindRank(r.c1) + KindRank(r.c2)

\* the input files of a run: no file, an empty file, and the comma-separated
\* files of 1..MaxCols columns and 1..MaxRows lines without a header line.
\* A line is given by its first two cells: the second is "" in a file of one
\* column and a short text, a title, in a file of three or more, where no
\* sniffer reads it.  The sniffers only count lines, so one file stands for
\* all the orders of its lines
LinesOf(c) ==
  [c1 : CellKinds, c2 : IF c = 1 THEN {""} ELSE IF c = 2 THEN CellKinds ELSE {"short"}]
InputFiles ==
  {NoFile, [exists |-> TRUE, cols |-> 0, rows |-> <<>>]} \cup
  UNION {{[exists |-> TRUE, cols |-> c, rows |-> rs] :
            rs \in {s \in UNION {[1..n -> LinesOf(c)] : n \in 1..MaxRows} :
                      \A i \in 1..(Len(s) - 1) : LineRank(s[i]) <= LineRank(s[i + 1])}} :
         c \in 1..MaxCols}

\* l.split(bestDelim)[j - 1], "" past the end of the line
Cell(f, r, j) ==
  IF j > f.cols THEN ""
  ELSE IF j = 1 THEN r.c1
  ELSE IF j = 2 THEN r.c2
  ELSE "short"

\* a share k / n and its comparisons with the decimal p / q
Share(k, n) == [num |-> k, den |-> n]
AtLeast(s, p, q) == s.num * q >= p * s.den
Above(s, p, q) == s.num * q > p * s.den
Below(s, p, q) == s.num * q < p * s.den

\* telemetry.js: isUrl, /^(https?:)?\/\//i.test(t) || t.startsWith('/')
isUrl(c) == c = "url"

\* rows.filter(r => isUrl(r[j - 1] || '')).length / rows.length
UrlShare(f, j) ==
  Share(Cardinality({i \in 1..Len(f.rows) : isUrl(Cell(f, f.rows[i], j))}), Len(f.rows))

\* rows.reduce((s, r) => s + String(r[j - 1] || '').length, 0)
RECURSIVE SumLen(_, _, _)
SumLen(f, j, i) ==
  IF i = 0 THEN 0 ELSE CellLen(Cell(f, f.rows[i], j)) + SumLen(f, j, i - 1)

\* "avgLen < 120"
AvgBelow(f, j, lim) == SumLen(f, j, Len(f.rows)) < lim * Len(f.rows)

EmptyShape ==
  [exists |-> FALSE, cols |-> 0, firstColUrlShare |-> Share(0, 1),
   firstRowIsUrl |-> FALSE, inferredRoles |-> <<>>]

\* telemetry.js: "if (cols === 3)"
ThreeColumns(cols) == cols = 3

\* telemetry.js: sniffCsvShape(filePath)
sniffCsvShape(f) ==
  IF ~f.exists \/ f.rows = <<>> THEN EmptyShape
  ELSE LET cols == f.cols
           firstColUrlShare == UrlShare(f, 1)
           col1Url == UrlShare(f, 1)
           col2Url == UrlShare(f, 2)
           roles ==
             IF ThreeColumns(cols) THEN <<"url", "title", "description">>
             ELSE IF cols = 2 THEN
               IF Above(col1Url, 6, 10) /\ Below(col2Url, 3, 10)
               THEN <<"url", IF AvgBelow(f, 2, TitleMaxLen) THEN "title" ELSE "description">>
               ELSE IF Below(col1Url, 3, 10) /\ Below(col2Url, 3, 10)
               THEN <<"title", "description">>
               ELSE <<>>
             ELSE IF cols = 1 THEN
               IF AtLeast(firstColUrlShare, 6, 10) THEN <<"url">>
               ELSE <<IF AvgBelow(f, 1, TitleMaxLen) THEN "title" ELSE "description">>
             ELSE <<>>
       IN [exists |-> TRUE, cols |-> cols, firstColUrlShare |-> firstColUrlShare,
           firstRowIsUrl |-> isUrl(Cell(f, f.rows[1], 1)), inferredRoles |-> roles]

Includes(roles, x) == \E i \in 1..Len(roles) : roles[i] = x

\* telemetry.js, validateOutputs: "!roles.includes('url') &&
\* !(shape.firstColUrlShare >= 0.6)"
NeverMissing(roles, shape) == FALSE
UrlColumnMissing(roles, shape) ==
  ~Includes(roles, "url") /\ ~AtLeast(shape.firstColUrlShare, 6, 10)

\* telemetry.js: validateOutputs(selected, shape), the {key, reason} errors
validateOutputs(selected, shape) ==
  LET hasInput == shape.exists
      roles == shape.inferredRoles
      existence ==
        IF "existence_csv" \in selected
        THEN IF ~hasInput
             THEN <<[key |-> "existence_csv", reason |-> "No input file found for existence check."]>>
             ELSE IF UrlColumnMissing(roles, shape)
             THEN <<[key |-> "existence_csv", reason |-> "First column must look like URLs (>=60%)."]>>
             ELSE <<>>
        ELSE <<>>
      comparison ==
        IF "comparison_csv" \in selected
        THEN IF ~hasInput
             THEN <<[key |-> "comparison_csv", reason |-> "Comparison requires an input file."]>>
             ELSE IF ~Includes(roles, "title") /\ ~Includes(roles, "description")
             THEN <<[key |-> "comparison_csv", reason |-> "Need a title and/or description column detected."]>>
             ELSE <<>>
        ELSE <<>>
      forbidden ==
        IF ~hasInput
        THEN (IF "existence_csv" \in selected
              THEN <<[key |-> "existence_csv", reason |-> "Forbidden when no input file is provided."]>>
              ELSE <<>>)
             \o (IF "comparison_csv" \in selected
                 THEN <<[key |-> "comparison_csv", reason |-> "Forbidden when no input file is provided."]>>
                 ELSE <<>>)
        ELSE <<>>
  IN existence \o comparison \o forbidden

\* shape-sniff.js: isUrlish, URLISH_RE; run.js: isUrlish
isUrlish(c) == c = "url"

\* shape-sniff.js: sniffCsvShape(text); the text of a file that is absent is ""
shapeSniff_sniffCsvShape(f) ==
  LET padded == f.rows
      cols == IF padded # <<>> THEN f.cols ELSE 0
      firstColUrlShare ==
        IF padded # <<>>
        THEN Share(Cardinality({i \in 1..Len(padded) : isUrlish(Cell(f, padded[i], 1))}),
                   Len(padded))
        ELSE Share(0, 1)
      inferredRoles ==
        IF cols >= 3 THEN << <<"url", "title", "description">> >>
        ELSE IF cols = 2 THEN
          IF AtLeast(firstColUrlShare, 6, 10)
          THEN IF AvgBelow(f, 2, TitleMaxLen)
               THEN << <<"url", "title">> >> ELSE << <<"url", "description">> >>
          ELSE << <<"title", "description">> >>
        ELSE IF cols = 1 THEN
          IF AtLeast(firstColUrlShare, 6, 10) THEN << <<"url">> >>
          ELSE IF AvgBelow(f, 1, TitleMaxLen)
               THEN << <<"title">> >> ELSE << <<"description">> >>
        ELSE <<>>
  IN [exists |-> f.rows # <<>>, cols |-> cols, firstColUrlShare |-> firstColUrlShare,
      firstRowIsUrl |-> IF padded # <<>> THEN isUrlish(Cell(f, padded[1], 1)) ELSE FALSE,
      inferredRoles |-> inferredRoles]

\* output-gating.js: validateOutputs(shape, selections), {ok, errors}
outputGating_validateOutputs(shape, selections) ==
  LET hasInput == shape.exists
      urlishEnough == AtLeast(shape.firstColUrlShare, 6, 10)
      roles == IF shape.inferredRoles # <<>> THEN shape.inferredRoles[1] ELSE <<>>
      hasTitleOrDesc == Includes(roles, "title") \/ Includes(roles, "description")
      existence ==
        IF "existence_csv" \in selections
        THEN (IF ~hasInput THEN <<"existence_csv requires an input file.">> ELSE <<>>)
             \o (IF ~urlishEnough
                 THEN <<"existence_csv requires first column to be URL-ish in >=60% rows.">>
                 ELSE <<>>)
        ELSE <<>>
      comparison ==
        IF "comparison_csv" \in selections
        THEN (IF ~hasInput THEN <<"comparison_csv requires an input file.">> ELSE <<>>)
             \o (IF ~hasTitleOrDesc
                 THEN <<"comparison_csv requires title and/or description columns (inferred from 2-3 column inputs).">>
                 ELSE <<>>)
        ELSE <<>>
      errors == existence \o comparison
  IN [ok |-> errors = <<>>, errors |-> errors]

\* telemetry.js: OUTPUTS, the keys
OutputKeys ==
  {"urls", "site_catalog", "internal_links", "tree", "existence_csv", "comparison_csv"}

\* csv.js: parseCsv(file, 'auto'), one line: three or more cells give
\* {expectedUrl, expectedTitle, expectedDesc}, two cells give a row with an
\* empty expectedUrl, and a line of one cell gives no row
parseLine(f, r) ==
  IF f.cols >= 3
  THEN <<[expectedUrl |-> r.c1, expectedTitle |-> r.c2, expectedDesc |-> Cell(f, r, 3)]>>
  ELSE IF f.cols >= 2
  THEN <<[expectedUrl |-> "", expectedTitle |-> r.c1, expectedDesc |-> r.c2]>>
  ELSE <<>>

RECURSIVE parseFrom(_, _)
parseFrom(f, i) ==
  IF i > Len(f.rows) THEN <<>> ELSE parseLine(f, f.rows[i]) \o parseFrom(f, i + 1)

parseCsv(f) == parseFrom(f, 1)

\* run.js: firstCell(row), the value under the row's first key
firstCell(row) == row.expectedUrl

\* run.js: sniffInputForExplicitUrls(inputPath, origin, prefix): no row has a
\* key "url"; the list is explicit when 90% of the non-empty first cells are
\* absolute URLs and one of them lies on the site
sniffInputForExplicitUrls(f) ==
  IF ~f.exists THEN [explicit |-> FALSE, urls |-> 0]
  ELSE LET rows == parseCsv(f)
           firstCol == {i \in 1..Len(rows) : firstCell(rows[i]) # ""}
           abs == {i \in firstCol : firstCell(rows[i]) = "url"}
           looksExplicit ==
             /\ firstCol # {}
             /\ AtLeast(Share(Cardinality(abs), Cardinality(firstCol)), 9, 10)
       IN IF rows = <<>> \/ ~looksExplicit \/ abs = {}
          THEN [explicit |-> FALSE, urls |-> 0]
          ELSE [explicit |-> TRUE, urls |-> Cardinality(abs)]

NoInputShape ==
  [mode |-> "no-input", cols |-> 0, firstColUrlShare |-> Share(0, 1), firstRowIsUrl |-> FALSE]

\* run.js: sniffInputShape(rows); cols is the number of keys of the first row
sniffInputShape(rows) ==
  IF rows = <<>> THEN NoInputShape
  ELSE [mode |-> "has-input",
        cols |-> Cardinality(DOMAIN rows[1]),
        firstColUrlShare |->
          Share(Cardinality({i \in 1..Len(rows) : isUrlish(firstCell(rows[i]))}), Len(rows)),
        firstRowIsUrl |-> isUrlish(firstCell(rows[1]))]

\* run.js, run, lines 205-226 and 236-296: sitemapMode
sitemapModeOf(f, forceFrontier, usingUrlsFile) ==
  LET inputExists == f.exists
      rows == IF inputExists THEN parseCsv(f) ELSE <<>>
      byList == ~forceFrontier /\ sniffInputForExplicitUrls(f).explicit
      shape == IF byList THEN NoInputShape ELSE sniffInputShape(rows)
  IN /\ ~usingUrlsFile
     /\ \/ byList
        \/ /\ inputExists
           /\ shape.mode # "no-input"
           /\ ~forceFrontier
           /\ \/ shape.cols >= 3
              \/ shape.cols = 1 /\ AtLeast(shape.firstColUrlShare, 6, 10)
              \/ shape.cols = 2 /\ (shape.firstRowIsUrl \/ AtLeast(shape.firstColUrlShare, 6, 10))

\* run.js, line 309: telemetry.setMode(!inputExists ? 'no-input' :
\* sitemapMode ? 'explicit-urls' : 'discovery')
modeOf(inputExists, sitemapMode) ==
  IF ~inputExists THEN "no-input"
  ELSE IF sitemapMode THEN "explicit-urls"
  ELSE "discovery"

\* shard-run.js: parseFirstColumn(filePath): the list is explicit when 80% of
\* the non-empty first cells are absolute URLs; a missing file makes parseCsv
\* throw, which is caught
parseFirstColumn(f) ==
  IF ~f.exists THEN [urls |-> 0, explicit |-> FALSE]
  ELSE LET rows == parseCsv(f)
           first == {i \in 1..Len(rows) : firstCell(rows[i]) # ""}
           good == {i \in first : firstCell(rows[i]) = "url"}
       IN [urls |-> Cardinality(good),
           explicit |-> first # {} /\ AtLeast(Share(Cardinality(good), Cardinality(first)), 8, 10)]

\* shard-run.js, line 221: sitemapMode = sniff.explicit && sniff.urls.length > 0
orchSitemapMode(f) ==
  LET sniff == parseFirstColumn(f) IN sniff.explicit /\ sniff.urls > 0

\* an input file chosen, nothing sniffed, gated or resolved yet
PreflightInit ==
  /\ LedgerInit /\ BucketsInit /\ RoundTripInit /\ Idle /\ FetchOff /\ LegacyOff /\ RunOff
  /\ HubOff /\ NormOff /\ SeedOff /\ TelOff /\ LifeOff
  /\ inputFile \in InputFiles
  /\ pf = NothingRun

\* telemetry.js, POST /config, lines 477-554: base and outDir are validated
\* (metaOk), the input is sniffed and the selected outputs are validated
\* against its shape; APPLIED is set to the verdict, and only an accepted
\* configuration is written to config.json
Apply(outputs, metaOk) ==
  LET shape == sniffCsvShape(inputFile)
      errors ==
        (IF metaOk THEN <<>> ELSE <<[key |-> "base", reason |-> "Base URL is required."]>>)
        \o validateOutputs(outputs, shape)
      valid == errors = <<>>
  IN /\ pf' = [op |-> "preflight", sel |-> outputs, shape |-> shape,
                errors |-> errors, valid |-> valid]
     /\ hub' = [hub EXCEPT !.APPLIED = valid,
                           !.STARTED = IF valid THEN FALSE ELSE @,
                           !.resp = IF valid THEN "applied" ELSE "rejected"]
     /\ cfgFile' = IF valid
                   THEN [there |-> TRUE, valid |-> TRUE, outputs |-> outputs, started |-> FALSE]
                   ELSE cfgFile
     /\ UNCHANGED <<inputFile, stopFlag>>

\* the first Apply of a session, with a base and an output folder that are
\* in order
Preflight(outputs) ==
  /\ pf.op = "none"
  /\ Apply(outputs, TRUE)

\* telemetry.js, POST /start, lines 560-578, with markStart: the run starts
\* only if config.json is valid and names an output; a lingering stop.flag
\* is removed
Start ==
  /\ IF cfgFile.there /\ cfgFile.valid /\ cfgFile.outputs # {}
     THEN /\ stopFlag' = FALSE
          /\ cfgFile' = [cfgFile EXCEPT !.started = TRUE]
          /\ hub' = [hub EXCEPT !.STARTED = TRUE, !.STOP_REQUESTED = FALSE,
                                !.resp = "start-ok"]
     ELSE /\ hub' = [hub EXCEPT !.resp = "start-refused"]
          /\ UNCHANGED <<stopFlag, cfgFile>>
  /\ UNCHANGED <<inputFile, pf>>

\* telemetry.js, POST /reset, lines 622-640, with markStart
Reset ==
  /\ hub' = [hub EXCEPT !.STOP_REQUESTED = FALSE,
                        !.mode = "init", !.currentIndex = 0,
                        !.threads = {}, !.buckets = {}, !.tree = {}, !.events = 0,
                        !.APPLIED = FALSE, !.STARTED = FALSE, !.resp = "reset"]
  /\ cfgFile' = NoConfig
  /\ stopFlag' = FALSE
  /\ UNCHANGED <<inputFile, pf>>

\* the messages the workers and the orchestrator post to /update
UpdateTypes == {"thread", "bucket", "tree", "bump", "step", "mode"}

\* telemetry.js, POST /update, lines 375-392: threadStatus, bucketUpdate,
\* treeAdd, bump, step, setMode
Update(type) ==
  /\ type = "bump" => hub.urlsFound < MaxTotal
  /\ hub' =
       CASE type = "thread" -> [hub EXCEPT !.threads = @ \cup {1}, !.resp = "update"]
         [] type = "bucket" -> [hub EXCEPT !.buckets = @ \cup {0}, !.resp = "update"]
         [] type = "tree" -> [hub EXCEPT !.tree = @ \cup {"/a"}, !.resp = "update"]
         [] type = "bump" -> [hub EXCEPT !.urlsFound = @ + 1, !.resp = "update"]
         [] type = "step" -> [hub EXCEPT !.currentIndex = 1, !.resp = "update"]
         [] OTHER -> [hub EXCEPT !.mode = "discovery", !.resp = "update"]
  /\ UNCHANGED <<inputFile, pf, stopFlag, cfgFile>>

\* telemetry.js, logEvent, lines 1459-1463: an event is pushed
LogEvent ==
  /\ hub.events < MaxEvents
  /\ hub' = [hub EXCEPT !.events = @ + 1]
  /\ UNCHANGED <<inputFile, pf, stopFlag, cfgFile>>

\* the input files and the selections the Control Panel session is run with
HubFiles == {NoFile, [exists |-> TRUE, cols |-> 1, rows |-> <<[c1 |-> "url", c2 |-> ""]>>]}
HubSelections == {{}, {"urls"}, {"existence_csv"}}

\* the server started, no configuration applied
HubInit ==
  /\ LedgerInit /\ BucketsInit /\ RoundTripInit /\ Idle /\ FetchOff /\ LegacyOff /\ RunOff
  /\ HubOff /\ NormOff /\ SeedOff /\ TelOff /\ LifeOff
  /\ inputFile \in HubFiles
  /\ pf = NothingRun

HubNext ==
  \/ \E outputs \in HubSelections, metaOk \in BOOLEAN : Apply(outputs, metaOk) /\ UNCHANGED HubFrame
  \/ Start /\ UNCHANGED HubFrame
  \/ StopRequest /\ UNCHANGED StopFrame
  \/ Reset /\ UNCHANGED HubFrame
  \/ \E type \in UpdateTypes : Update(type) /\ UNCHANGED HubFrame
  \/ LogEvent /\ UNCHANGED HubFrame

\* shape-sniff.js and output-gating.js: the input text is sniffed and the
\* selections are validated against its shape
OutputGate(selections) ==
  /\ pf.op = "none"
  /\ LET shape == shapeSniff_sniffCsvShape(inputFile)
         res == outputGating_validateOutputs(shape, selections)
     IN pf' = [op |-> "gate", sel |-> selections, shape |-> shape,
               errors |-> res.errors, valid |-> res.ok]
  /\ UNCHANGED inputFile

\* run.js, run, lines 205-312: a worker loads the input, resolves its mode
\* and reports it
ResolveMode(forceFrontier, usingUrlsFile) ==
  /\ pf.op = "none"
  /\ LET sitemapMode == sitemapModeOf(inputFile, forceFrontier, usingUrlsFile)
     IN pf' = [op |-> "mode", forceFrontier |-> forceFrontier,
               usingUrlsFile |-> usingUrlsFile, sitemapMode |-> sitemapMode,
               mode |-> modeOf(inputFile.exists, sitemapMode)]
  /\ UNCHANGED inputFile

\* shard-run.js, lines 220-238: the orchestrator sniffs the input and takes
\* the explicit-list path or the discovery path
OrchResolve ==
  /\ pf.op = "none"
  /\ pf' = [op |-> "orch", sitemapMode |-> orchSitemapMode(inputFile)]
  /\ UNCHANGED inputFile

\* shard-run.js, line 77: META_ONLY_REPORTS = j.outputs.join(','), the
\* selections a worker can be started with (none when it is run by hand)
StageReports == {{}, {"existence_csv"}, {"existence_csv", "urls"}}

\* run.js, lines 455-457: existenceOnly = sitemapMode && onlyReports.length === 1
\* && (onlyReports[0] === 'existence_csv' || onlyReports[0] === 'existence')
existenceOnlyOf(sitemapMode, onlyReports) ==
  sitemapMode /\ (onlyReports = {"existence_csv"} \/ onlyReports = {"existence"})

\* run.js, run, lines 452-459, 525 and 572-599: the worker whose mode is
\* resolved either takes the existence-only path (one HTTP probe per URL, the
\* url-existence part files, return) or goes on to the fetch stage (browser
\* launched, fetch cache loaded and saved, one page per claimed URL)
EnterStage(onlyReports) ==
  /\ pf.op = "mode"
  /\ LET existenceOnly == existenceOnlyOf(pf.sitemapMode, onlyReports)
     IN pf' = [op |-> "stage", forceFrontier |-> pf.forceFrontier,
               usingUrlsFile |-> pf.usingUrlsFile, sitemapMode |-> pf.sitemapMode,
               onlyReports |-> onlyReports, existenceOnly |-> existenceOnly,
               stage |-> IF existenceOnly THEN "existence-only" ELSE "fetch"]
  /\ UNCHANGED inputFile

PreflightNext ==
  \/ \E outputs \in SUBSET OutputKeys : Preflight(outputs) /\ UNCHANGED HubFrame
  \/ \E selections \in SUBSET OutputKeys : OutputGate(selections) /\ UNCHANGED ShapeFrame
  \/ \E forceFrontier \in BOOLEAN, usingUrlsFile \in BOOLEAN :
       ResolveMode(forceFrontier, usingUrlsFile) /\ UNCHANGED ShapeFrame
  \/ OrchResolve /\ UNCHANGED ShapeFrame
  \/ \E onlyReports \in StageReports : EnterStage(onlyReports) /\ UNCHANGED ShapeFrame

\* --------------------------------------------------------- normalizeUrl
\* src/match/normalize.js.  A URL is what new URL(u) parses it to: the host as
\* written, the pathname as a string of characters, the keys of its query
\* and whether it has a fragment.
PathChars == {"/", "a"}
Pathnames ==
  {p \in UNION {[1..n -> PathChars] : n \in 1..MaxPathLen} : p[1] = "/"}
ParamKeys == {"utm_source", "GCLID", "page", "q"}
NormUrls ==
  [host : {"example.com", "Example.COM"}, path : Pathnames, keys : SUBSET ParamKeys,
   hash : BOOLEAN]

\* line 12-13: drop.has(k.toLowerCase())
toLowerCase(k) ==
  CASE k = "GCLID" -> "gclid"
    [] k = "Example.COM" -> "example.com"
    [] OTHER -> k
drop == {"utm_source", "utm_medium", "utm_campaign", "utm_term", "utm_content", "gclid", "fbclid"}

\* line 17: pathname.length > 1 && pathname.endsWith('/') => slice(0, -1)
stripSlash(path) ==
  IF Len(path) > 1 /\ path[Len(path)] = "/" THEN SubSeq(path, 1, Len(path) - 1) ELSE path

\* normalizeUrl(u, { keepPageParam }), lines 8-19
normalizeUrl(u, keepPageParam) ==
  LET kept == {k \in u.keys : toLowerCase(k) \notin drop}
      keys == IF ~keepPageParam THEN kept \ {"page"} ELSE kept
  IN [host |-> toLowerCase(u.host), path |-> stripSlash(u.path), keys |-> keys, hash |-> FALSE]

\* a URL that new URL() accepts and a setting of keepPageParam
NormalizeInit ==
  /\ LedgerInit /\ BucketsInit /\ RoundTripInit /\ Idle /\ FetchOff /\ LegacyOff /\ RunOff
  /\ PreflightOff /\ HubOff /\ SeedOff /\ TelOff /\ LifeOff
  /\ \E u \in NormUrls, keepPageParam \in BOOLEAN :
       nz = [u |-> u, keepPageParam |-> keepPageParam, calls |-> 0, prev |-> u, out |-> u]

\* normalizeUrl is called on the result of the call before
NormalizeCall ==
  /\ nz.u # NoUrl
  /\ nz.calls < NormCalls
  /\ nz' = [nz EXCEPT !.calls = @ + 1, !.prev = nz.out,
                      !.out = normalizeUrl(nz.out, nz.keepPageParam)]

NormalizeNext == NormalizeCall /\ UNCHANGED NormFrame

\* the workers of a run at the top of run(), each with its slice, started
\* with or without --dropCache (shard-run.js passes argv.dropCache to every
\* worker, lines 273 and 640); the locks directory is empty
FetchBootInit ==
  /\ LedgerInit /\ BucketsInit /\ RoundTripInit /\ Idle /\ LegacyOff /\ RunOff /\ PreflightOff
  /\ HubOff /\ NormOff /\ SeedOff /\ TelOff /\ LifeOff
  /\ stopFlag = FALSE
  /\ fetchLock = [u \in Urls |-> 0]
  /\ \E assign \in FetchInputs, dropCache \in BOOLEAN :
       fw = [w \in Workers |->
               [pc |-> "boot", i |-> 0, toFetch |-> SliceOf(assign, w), stopped |-> FALSE,
                pathPrefix |-> TRUE, dropCache |-> dropCache,
                tasks |-> [k \in Slots |-> NoTask]]]
  /\ recOnce = {}
  /\ recAgain = {}

\* run, lines 199-203: fs.rmSync(cfg.locksDir, { recursive: true, force: true })
\* and mkdirSync: every .lock of the directory is gone
locksAfterReset(locks) == [u \in Urls |-> 0]

\* run, lines 160-570: the worker starts up, with --dropCache it drops its
\* cache part and resets the locks directory, then it resolves its URLs; with
\* an empty slice it returns, otherwise it enters the fetch stage
FetchBoot(w) ==
  /\ fw[w].pc = "boot"
  /\ fetchLock' = IF fw[w].dropCache THEN locksAfterReset(fetchLock) ELSE fetchLock
  /\ fw' = [fw EXCEPT ![w].pc = IF fw[w].toFetch = <<>> THEN "off" ELSE "run"]
  /\ UNCHANGED <<stopFlag, recOnce, recAgain>>

FetchBootNext ==
  \/ \E w \in Workers : FetchBoot(w) /\ UNCHANGED FetchFrame
  \/ FetchNext

\* ------------------------------------------- worker updates (telemetry.js)

\* the updates a run sends, and the most bytes a bump carries
MaxUpdates == 3
MaxInflight == 2
MaxDelta == 2
Deltas == 0..MaxDelta

\* the "type" keys of the objects handed to telemetry.event: none, one that
\* no update kind uses ('visited', run.js:745), one that names an update kind
\* ('mode', run.js:299)
EventTypes == {"", "visited", "mode"}

\* postToParent, line 167: JSON.stringify({ type, ...payload }); a "type" key
\* of the payload replaces the update kind
wireType(type, payloadType) == IF payloadType # "" THEN payloadType ELSE type

\* bump, line 302, in a worker: postToParent('bump', { metric, delta: Number(n)||0 })
bumpMessage(n) == [type |-> wireType("bump", ""), delta |-> n, ev |-> FALSE]

\* event, line 307, in a worker: postToParent('event', obj || {})
eventMessage(objType) == [type |-> wireType("event", objType), delta |-> 0, ev |-> TRUE]

\* the other updates, posted with their own payloads
plainMessage(type) == [type |-> wireType(type, ""), delta |-> 0, ev |-> FALSE]

\* bump, lines 303-304, in the hub, handed the delta as it was sent:
\* totals[metric] += Number(n) || 0
hubDeltaExact(delta) == delta

\* POST /update, line 384, and bump, lines 303-304, in the hub:
\* bump(msg.metric, msg.delta || 1); totals[metric] += Number(n) || 0
hubDelta(delta) == IF delta = 0 THEN 1 ELSE delta

\* POST /update, lines 379-388: the switch over msg.type; a type without a
\* case changes nothing and is answered 204 like the others
onUpdate(msg) ==
  CASE msg.type = "thread" -> [hub EXCEPT !.threads = @ \cup {1}, !.resp = "update"]
    [] msg.type = "bucket" -> [hub EXCEPT !.buckets = @ \cup {0}, !.resp = "update"]
    [] msg.type = "tree" -> [hub EXCEPT !.tree = @ \cup {"/a"}, !.resp = "update"]
    [] msg.type = "bump" -> [hub EXCEPT !.urlsFound = @ + hubDelta(msg.delta), !.resp = "update"]
    [] msg.type = "step" -> [hub EXCEPT !.currentIndex = 1, !.resp = "update"]
    [] msg.type = "mode" -> [hub EXCEPT !.mode = "discovery", !.resp = "update"]
    [] OTHER -> [hub EXCEPT !.resp = "update"]

\* postToParent, lines 164-177: the request is written and the call returns
Post(msg) ==
  /\ tel.nsent < MaxUpdates
  /\ Len(tel.inflight) < MaxInflight
  /\ tel' = [tel EXCEPT !.inflight = Append(@, msg), !.nsent = @ + 1,
                        !.sum = @ + (IF msg.type = "bump" THEN msg.delta ELSE 0)]
  /\ UNCHANGED <<hub, cfgFile, stopFlag, inputFile, pf>>

\* a worker calls telemetry.bump(metric, n)
WorkerBump(n) == Post(bumpMessage(n))

\* a worker calls telemetry.event(obj)
WorkerEvent(objType) == Post(eventMessage(objType))

\* a worker or the orchestrator posts a thread, bucket, tree, step or mode update
WorkerPost(type) == Post(plainMessage(type))

RECURSIVE without(_, _)
without(q, i) == IF i = 1 THEN Tail(q) ELSE <<Head(q)>> \o without(Tail(q), i - 1)

\* POST /update, lines 375-392: the hub handles one of the requests in flight
HubUpdate(i) ==
  /\ i \in 1..Len(tel.inflight)
  /\ hub' = onUpdate(tel.inflight[i])
  /\ tel' = [tel EXCEPT !.inflight = without(@, i), !.got = tel.inflight[i]]
  /\ UNCHANGED <<cfgFile, stopFlag, inputFile, pf>>

\* what an update leaves alone outside the hub and the requests in flight
UpdatesFrame == <<ledgerVars, bucketVars, rt, crawlVars, fetchVars, legacyVars, runVars, nz, hc, sd,
  wl>>

UpdatesNext ==
  \/ \E n \in Deltas : WorkerBump(n) /\ UNCHANGED UpdatesFrame
  \/ \E objType \in EventTypes : WorkerEvent(objType) /\ UNCHANGED UpdatesFrame
  \/ \E type \in UpdateTypes \ {"bump"} : WorkerPost(type) /\ UNCHANGED UpdatesFrame
  \/ \E i \in 1..MaxInflight : HubUpdate(i) /\ UNCHANGED UpdatesFrame

\* ------------------------------------------- worker lifecycle (run.js)

\* the most URLs of a worker's slice
MaxSlice == 2

\* telemetry.threadStatus({ workerId, phase, url }) in a worker
report(w, phase) == Append(wl[w].phases, phase)

\* run.js, line 767, in the task's finally:
\* try { telemetry.threadStatus({ ..., phase: 'fetched', url: final || seedUrl }) } catch {}
\* "final" is declared by "let" inside the try block (line 661) and is not in
\* scope in the finally: the argument raises ReferenceError, the catch
\* swallows it and no status is posted
fetchedReported == FALSE

LifeInit ==
  /\ LedgerInit /\ BucketsInit /\ RoundTripInit /\ Idle /\ FetchOff /\ LegacyOff /\ RunOff
  /\ PreflightOff /\ HubOff /\ NormOff /\ SeedOff /\ TelOff
  /\ wl \in [Workers -> {[pc |-> "start", inputExists |-> i, existenceOnly |-> e,
                          urls |-> n, i |-> 0, phases |-> <<>>] :
                           i \in BOOLEAN, e \in BOOLEAN, n \in 0..MaxSlice}]

\* run, line 173: the worker's row is marked
RunBegin(w) ==
  /\ wl[w].pc = "start"
  /\ wl' = [wl EXCEPT ![w].pc = "input", ![w].phases = report(w, "init")]
  /\ UNCHANGED stopFlag

\* run, lines 205-222 and 452-459: the input is loaded and confirmed, the URL
\* list is resolved, and the run takes the existence-only path or goes on
RunInput(w) ==
  /\ wl[w].pc = "input"
  /\ wl' = [wl EXCEPT ![w].pc = IF wl[w].existenceOnly THEN "probe" ELSE "slice",
                      ![w].phases = IF wl[w].inputExists
                                    THEN report(w, "input-confirm") ELSE @]
  /\ UNCHANGED stopFlag

\* run, lines 465-488: one pass of the existence probe loop
RunProbe(w) ==
  /\ wl[w].pc = "probe"
  /\ wl[w].i < wl[w].urls /\ ~stopFlag
  /\ wl' = [wl EXCEPT ![w].i = @ + 1]
  /\ UNCHANGED stopFlag

\* run, lines 466 and 490-525: the loop ends or breaks on Stop, the
\* existence files are written, done is reported and run returns
RunProbeDone(w) ==
  /\ wl[w].pc = "probe"
  /\ wl[w].i = wl[w].urls \/ stopFlag
  /\ wl' = [wl EXCEPT ![w].pc = "returned", ![w].phases = report(w, "done")]
  /\ UNCHANGED stopFlag

\* run, lines 559-570: empty slice, the empty cache part is saved and run returns
RunEmptySlice(w) ==
  /\ wl[w].pc = "slice"
  /\ wl[w].urls = 0
  /\ wl' = [wl EXCEPT ![w].pc = "returned"]
  /\ UNCHANGED stopFlag

\* run, lines 572-574: the fetch stage starts
RunFetchStage(w) ==
  /\ wl[w].pc = "slice"
  /\ wl[w].urls > 0
  /\ wl' = [wl EXCEPT ![w].pc = "batch", ![w].phases = report(w, "fetch")]
  /\ UNCHANGED stopFlag

\* run, lines 631-635: the head of the batch loop; Stop is reported and ends it
RunBatch(w) ==
  /\ wl[w].pc = "batch"
  /\ wl' = IF stopFlag
           THEN [wl EXCEPT ![w].pc = "reports", ![w].phases = report(w, "stopped")]
           ELSE IF wl[w].i = wl[w].urls THEN [wl EXCEPT ![w].pc = "reports"]
           ELSE [wl EXCEPT ![w].pc = "task"]
  /\ UNCHANGED stopFlag

\* run, lines 637-768: one task; without its seed claim, or after Stop, it
\* returns at once, otherwise it reports fetch and ends in its finally
RunTask(w, claimed) ==
  /\ wl[w].pc = "task"
  /\ wl' = [wl EXCEPT ![w].pc = "batch", ![w].i = @ + 1,
                      ![w].phases =
                        IF stopFlag \/ ~claimed THEN @
                        ELSE IF fetchedReported
                             THEN Append(report(w, "fetch"), "fetched")
                             ELSE report(w, "fetch")]
  /\ UNCHANGED stopFlag

\* run, line 644: context.newPage() rejects outside the task's try, the
\* batch's Promise.all rejects and run raises
RunTaskRaises(w) ==
  /\ wl[w].pc = "task"
  /\ ~stopFlag
  /\ wl' = [wl EXCEPT ![w].pc = "raised"]
  /\ UNCHANGED stopFlag

\* run, lines 778-932: cache merge, reports, done is reported and run returns
RunReports(w) ==
  /\ wl[w].pc = "reports"
  /\ wl' = [wl EXCEPT ![w].pc = "returned", ![w].phases = report(w, "done")]
  /\ UNCHANGED stopFlag

\* what a worker's run leaves alone here: the files of the other components
LifeFrame == <<ledgerVars, bucketVars, rt, crawlVars, fetchVars, legacyVars, runVars, shapeVars,
  hubVars, nz, hc, sd, tel>>

LifeNext ==
  \/ \E w \in Workers : RunBegin(w) /\ UNCHANGED LifeFrame
  \/ \E w \in Workers : RunInput(w) /\ UNCHANGED LifeFrame
  \/ \E w \in Workers : RunProbe(w) /\ UNCHANGED LifeFrame
  \/ \E w \in Workers : RunProbeDone(w) /\ UNCHANGED LifeFrame
  \/ \E w \in Workers : RunEmptySlice(w) /\ UNCHANGED LifeFrame
  \/ \E w \in Workers : RunFetchStage(w) /\ UNCHANGED LifeFrame
  \/ \E w \in Workers : RunBatch(w) /\ UNCHANGED LifeFrame
  \/ \E w \in Workers, claimed \in BOOLEAN : RunTask(w, claimed) /\ UNCHANGED LifeFrame
  \/ \E w \in Workers : RunTaskRaises(w) /\ UNCHANGED LifeFrame
  \/ \E w \in Workers : RunReports(w) /\ UNCHANGED LifeFrame
  \/ StopRequest /\ UNCHANGED StopFrame

\* a worker inside run() is a running process: its steps are its own code
\* and awaits with timeouts
LifeLive ==
  \A w \in Workers :
    WF_vars((RunBegin(w) \/ RunInput(w) \/ RunProbe(w) \/ RunProbeDone(w) \/ RunEmptySlice(w)
             \/ RunFetchStage(w) \/ RunBatch(w) \/ (\E c \in BOOLEAN : RunTask(w, c))
             \/ RunReports(w)) /\ UNCHANGED LifeFrame)

\* ------------------------------------------- discovery bootstrap (shard-run)

\* seedUrl0 and seedUrl, lines 425 and 439: new URL(pathPrefix || '/', base),
\* the base-prefix URL
seedUrl == 1

\* the hrefs the seed-scan's page.evaluate can return, lines 497-528
ScanLinks == SUBSET Urls

\* lines 530-540: the links of the site (and under the prefix) are kept
filteredOf(links) == {u \in links : acceptFn(u)}

\* lines 433-437 and 567: the first-level section URL of a kept link; the
\* base-prefix URL has no section key, every other URL of the universe is the
\* index of its own first-level section
sectionUrlsOf(links) == {u \in filteredOf(links) : u # seedUrl}

\* lines 543-550 and 561: the kept links with no section key, and the
\* base-prefix URL when the scan found nothing
rootUrlsOf(links) ==
  IF filteredOf(links) = {} THEN {seedUrl} ELSE filteredOf(links) \cap {seedUrl}

\* line 568: Array.from(new Set([seedUrl, ...rootUrls, ...sectionUrls, ...filtered]))
bootstrapSeeds == {seedUrl} \cup sd.rootUrls \cup sd.sections \cup sd.filtered

\* seedBuckets, lines 220-231: the bucket files exist, then appendToBuckets
seedBuckets(urls) == appendToBuckets(urls)

\* line 570 as written: seedBuckets(frontierDir, [seedUrl0], bucketParts)
seedBootstrap == seedBuckets(<<seedUrl>>)

\* what the bootstrap leaves alone: ledger, cursors, leases, every other component
SeedFrame == <<ledgerVars, cursor, cn, rt, owner, stopFlag, fetchVars, legacyVars, runVars,
  shapeVars, hubVars, nz, hc, tel, wl>>

\* lines 418-423: the frontier and lock directories are removed and recreated
SeedInit ==
  /\ LedgerInit /\ BucketsInit /\ RoundTripInit /\ Idle /\ FetchOff /\ LegacyOff /\ RunOff
  /\ PreflightOff /\ HubOff /\ NormOff /\ TelOff /\ LifeOff
  /\ sd = [NoScan EXCEPT !.pc = "seed"]

\* lines 425-426: seedBuckets(frontierDir, [seedUrl0], bucketParts)
SeedFirst ==
  /\ sd.pc = "seed"
  /\ seedBuckets(<<seedUrl>>)
  /\ sd' = [sd EXCEPT !.pc = "scan"]
  /\ UNCHANGED <<cw, SeedFrame>>

\* lines 466-550 and 561: the seed-scan returns its links
SeedScan(links) ==
  /\ sd.pc = "scan"
  /\ sd' = [pc |-> "bootstrap", sections |-> sectionUrlsOf(links),
            rootUrls |-> rootUrlsOf(links), filtered |-> filteredOf(links), failed |-> FALSE]
  /\ UNCHANGED <<bfile, rotatedF, cw, SeedFrame>>

\* lines 551-555: the seed-scan raises, the warning is logged and the crawl
\* continues root-only
SeedScanFails ==
  /\ sd.pc = "scan"
  /\ sd' = [pc |-> "bootstrap", sections |-> {}, rootUrls |-> {seedUrl}, filtered |-> {},
            failed |-> TRUE]
  /\ UNCHANGED <<bfile, rotatedF, cw, SeedFrame>>

\* lines 566-573: bootstrap frontier
SeedBootstrap ==
  /\ sd.pc = "bootstrap"
  /\ IF bootstrapSeeds # {} THEN seedBootstrap ELSE UNCHANGED <<bfile, rotatedF>>
  /\ sd' = [sd EXCEPT !.pc = "spawn"]
  /\ UNCHANGED <<cw, SeedFrame>>

\* lines 575-612 and the spawn pool: the frontier workers are started
SeedSpawn ==
  /\ sd.pc = "spawn"
  /\ cw' = [w \in Workers |-> CrawlStart(w)]
  /\ sd' = [sd EXCEPT !.pc = "crawl"]
  /\ UNCHANGED <<bfile, rotatedF, SeedFrame>>

SeedNext ==
  \/ SeedFirst
  \/ \E links \in ScanLinks : SeedScan(links)
  \/ SeedScanFails
  \/ SeedBootstrap
  \/ SeedSpawn
  \/ \E w \in Workers : CrawlAcquire(w) /\ UNCHANGED CrawlFrame
  \/ \E w \in Workers : CrawlScan(w) /\ UNCHANGED CrawlFrame
  \/ \E w \in Workers : CrawlIdle(w) /\ UNCHANGED CrawlFrame
  \/ \E w \in Workers : sd.pc = "crawl" /\ CrawlCrash(w) /\ UNCHANGED CrawlFrame


Init ==
  /\ LedgerInit /\ BucketsInit /\ RoundTripInit /\ Idle /\ FetchOff /\ LegacyOff
  /\ RunOff /\ PreflightOff /\ HubOff /\ NormOff /\ SeedOff /\ TelOff /\ LifeOff

Next ==
  \/ LedgerNext \/ BucketsNext \/ RoundTripNext \/ CrawlNext \/ FetchNext
  \/ LegacyNext \/ RunNext \/ PreflightNext \/ HubNext \/ NormalizeNext \/ HandleNext
  \/ SeedNext \/ UpdatesNext \/ LifeNext \/ FetchBootNext

Spec == Init /\ [][Next]_vars

\* N workers driving the claim ledger concurrently
SpecLedger == Init /\ [][LedgerNext]_vars

\* callers driving the bucket API: appends, claimNextBucket, claimNextAnyBucket
SpecBuckets == Init /\ [][BucketsNext]_vars

\* one caller running the round-trip loop
SpecRoundTrip == Init /\ [][RoundTripNext]_vars

\* the workers of a run in crawlSite's bucketed loop over a seeded frontier
SpecCrawl == CrawlInit /\ [][CrawlNext]_vars

\* the workers of a run in run's fetch loop, with the stop flag
SpecFetch == FetchInit /\ [][FetchNext]_vars

\* the workers of a run in crawlSite's legacy frontier loop, with the stop flag
SpecLegacyCrawl == LegacyInit /\ [][LegacyNext]_vars

\* the orchestrator of a run with its workers, on either path, with the stop
\* flag
SpecRun == RunInit /\ [][RunNext]_vars

\* the preflight of a run over one input file: the telemetry server's
\* sniffer and gate, the library's sniffer and gate, and a worker's mode
\* resolution
SpecPreflight == PreflightInit /\ [][PreflightNext]_vars

\* a Control Panel session against the telemetry server: Apply, Start, Stop,
\* Reset, and the updates of a run
SpecHub == HubInit /\ [][HubNext]_vars

\* the crawl loop with every live worker going on: a worker inside
\* tryOneBucket's while loop is a running process whose only waits are a
\* 100 ms timer and awaits with timeouts
CrawlLive == \A w \in Workers : WF_vars(CrawlScan(w) /\ UNCHANGED CrawlFrame)
SpecCrawlLive == CrawlInit /\ [][CrawlNext]_vars /\ CrawlLive

\* the claim ledger with handles that outlive their first complete() or release()
SpecHandle == Init /\ [][HandleNext]_vars

\* normalizeUrl applied again and again to one URL
SpecNormalize == NormalizeInit /\ [][NormalizeNext]_vars

\* the workers of a run posting their updates to the telemetry server
SpecUpdates == HubInit /\ [][UpdatesNext]_vars

\* the workers of a run inside run(), with the stop flag, every worker going on
SpecLife == LifeInit /\ [][LifeNext]_vars /\ LifeLive

\* the workers of a run from their startup on, through run's fetch loop
SpecFetchBoot == FetchBootInit /\ [][FetchBootNext]_vars

\* the orchestrator's discovery path from the cleaned frontier directory to
\* its frontier workers in the crawl loop
SpecSeed == SeedInit /\ [][SeedNext]_vars


\* ------------------------------------------------------------- claims

\* C1: Single-claim. For every URL, at every moment, at most one worker
\* holds a claim on it: between a worker's successful tryClaim(url) and its
\* complete() or release() no other worker's tryClaim(url) returns a claim.
C1_SingleClaim ==
  \A u \in Urls : Cardinality({w \in Workers : Holds(w, u)}) <= 1

\* a worker holds u while another worker's tryClaim(u) has just been refused
\* by the exclusive create
C1_Witness ==
  \E w1, w2 \in Workers, u \in Urls :
    /\ w1 # w2
    /\ Holds(w1, u)
    /\ ret[w2].res = "exists"
    /\ ret[w2].url = u

\* C2: Completion is terminal. Once a URL's .done marker has been created in
\* a run, no tryClaim for that URL that starts later returns a claim, under
\* any interleaving of claim attempts, completions and ledger trimming.
C2_CompletionTerminal ==
  \A w \in Workers : ~(ret[w].res = "claimed" /\ ret[w].after)

\* C3: every URL is in exactly one of free, claimed (.lock only) and
\* completed (.done only): a .lock and a .done never coexist, and the only
\* transitions are free->claimed, claimed->completed and claimed->free.
StateOf(u) ==
  IF lockF[u] # 0 /\ u \in doneF THEN "both"
  ELSE IF lockF[u] # 0 THEN "claimed"
  ELSE IF u \in doneF THEN "completed"
  ELSE "free"

LegalTransitions ==
  {<<"free", "claimed">>, <<"claimed", "completed">>, <<"claimed", "free">>}

C3_ExactlyOneState ==
  /\ [](\A u \in Urls : StateOf(u) # "both")
  /\ [][\A u \in Urls :
          StateOf(u)' # StateOf(u) => <<StateOf(u), StateOf(u)'>> \in LegalTransitions]_vars

C6_RoundTrip ==
  rt \in {"ended", "raised"} =>
    \A u \in Appended : acceptFn(u) => u \in doneF

\* C8: Bucket owner lease is a mutex. At any moment at most one worker holds
\* the owner lease of bucket r, and every claimNextBucket call of the crawl
\* loop on bucket r (preferred pass or stealing pass) is made while the
\* caller holds that lease, so two workers never scan one bucket at a time.
C8_LeaseMutex ==
  /\ [](\A r \in Buckets : Cardinality({w \in Workers : r \in cw[w].lease}) <= 1)
  /\ [][\A w \in Workers :
          cw[w].pc = "scan" /\ cw[w]' # cw[w] /\ cw[w]'.pc # "crashed" =>
            \E r \in cw[w].lease : owner[r] = w /\ cn'.w = w /\ cn'.r = r]_vars

\* a worker is scanning bucket r under its lease while another worker has
\* just been refused the lease of r
C8_Witness ==
  \E w1, w2 \in Workers, r \in Buckets :
    /\ w1 # w2
    /\ cw[w1].pc = "scan" /\ r \in cw[w1].lease
    /\ cw[w1].localIdle > 0
    /\ r \in cw[w2].denied

\* C7: Quiescence is declared only under the triple condition. A worker leaves
\* the frontier crawl loop as quiescent only in a state where the frontier has
\* no pending work (sumPendingBytes = 0), no claim .lock is outstanding
\* (claimLockCount = 0), and either the frontier fingerprint has been
\* unchanged for at least 5 consecutive ticks or the worker has been idle for
\* at least 50 consecutive cycles.
C7_QuiescenceTriple ==
  [][\A w \in Workers :
       cw[w].pc = "check" /\ cw[w]'.pc \in {"exit-empty", "exit-settled"} =>
         /\ sumPendingBytes = 0
         /\ countLocks = 0
         /\ (cw[w]'.stableCycles >= StableQuiet \/ cw[w]'.idleCycles >= IdleQuiet)]_vars

\* C5: Crash safety of the frontier. If a worker crashes at any point of a
\* ClaimNext/fetch cycle, no accept-passing URL of a bucket is skipped: each
\* one is still claimed and completed by a surviving worker.  Stated on the
\* runs that have ended: once a worker has crashed and every surviving worker
\* has left the crawl loop, every accept-passing URL of the buckets has its
\* .done marker.
C5_CrashSafety ==
  LET surviving == {w \in Workers : cw[w].pc # "crashed"}
  IN (surviving # {} /\ surviving # Workers /\ \A w \in surviving : Stopped(cw[w].pc)) =>
       \A r \in Buckets : \A u \in SeqRange(bfile[r]) : acceptFn(u) => u \in doneF

\* C9: At-most-once processing in the fetch stage. Across all workers of a
\* run each normalized final URL is fetched and recorded as a page record at
\* most once; after one worker has processed a URL its claim is completed, so
\* no later claim attempt on that URL (by the same or another worker, e.g. for
\* another seed that redirects to it) succeeds.
C9_AtMostOnce ==
  /\ [](recAgain = {})
  /\ [][\A u \in recOnce : fetchLock[u] = 0 => fetchLock[u]' = 0]_vars

\* C10: Cooperative stop in the worker. Once the stop flag file exists, a
\* worker starts no new URL: it acquires no further URL claim in the frontier
\* crawl loop (no .lock appears in disco-locks) or in the fetch loop (no task
\* takes a seed claim); it only finishes the URL in progress and releases.
C10_CooperativeStop ==
  [][stopFlag =>
       /\ \A u \in Urls : lockF[u] = 0 => lockF[u]' = 0
       /\ \A w \in Workers, k \in Slots :
            fw[w].tasks[k].st # "nav" => fw[w].tasks[k].st' # "nav"]_vars

\* every spawned worker's process has ended and the spawn loop is over
WorkersExited ==
  /\ orch.pc = "spawned"
  /\ \A w \in Workers : child[w] # "none" => fw[w].pc \in {"done", "killed"}

\* C11: No lock survives a worker. When all workers have exited after a Stop,
\* no .lock file remains in the claim ledgers (locks, disco-locks): every
\* claim a worker acquired has been released or completed.
C11_NoLockSurvives ==
  (stopFlag /\ WorkersExited) =>
    \A u \in Urls : fetchLock[u] = 0 /\ lockF[u] = 0

\* the orchestrator has nothing left to do: the spawn loop is over, no
\* launchNext call is pending, and every spawned child has exited and its
\* exit handler has returned
OrchQuiet ==
  /\ orch.pc \in {"spawned", "pool"}
  /\ orch.launching = 0
  /\ \A t \in Tasks : child[t] \in {"none", "over"}

\* C12: Orchestrator stop. If Stop is requested during a run, then after the
\* running workers have exited the orchestrator reports the final step (done)
\* and performs neither merge-urls nor cleanup, on the discovery path and on
\* the explicit-URL path, whether or not every task had been launched when
\* Stop arrived.  Stated on the runs that have ended: with the stop flag up
\* and the orchestrator at rest the last step reported is done, and with the
\* stop flag up no step other than done is reported.
C12_OrchestratorStop ==
  /\ []((stopFlag /\ OrchQuiet) => (steps # <<>> /\ steps[Len(steps)] = "done"))
  /\ [][stopFlag => (steps' = steps \/ steps' = steps \o <<"done">>)]_vars

\* C13: Done-before-merge ordering. The orchestrator begins the merge-urls
\* step only after every spawned worker has exited and that worker's part
\* has been appended to the master list: at a step that reports merge-urls
\* every spawned child's process has ended, its exit has been observed by its
\* handler and its part, when it wrote one, is in the master list.
C13_DoneBeforeMerge ==
  [][(Len(steps') > Len(steps) /\ steps'[Len(steps) + 1] = "merge-urls") =>
       \A t \in Tasks : child[t] # "none" =>
         /\ child[t] \in {"await", "over"}
         /\ t \in Workers /\ orch.path = "explicit" => fw[t].pc \in {"done", "killed"}
         /\ partF[t].there => appended[t] >= 1]_vars

\* merge-urls has been reported after two workers exited and had their parts
\* appended
C13_Witness ==
  /\ steps # <<>> /\ steps[1] = "merge-urls"
  /\ Cardinality({t \in Tasks : child[t] = "over" /\ appended[t] >= 1}) >= 2

\* the URLs of the parts the workers of the run wrote
PartUrls == UNION {SeqRange(partF[t].urls) : t \in {x \in Tasks : partF[x].there}}

\* C14: Final-set. When a run completes without Stop, the merged final URL
\* list is exactly the set of URLs that appear in some worker's part, each
\* once, with every worker's part contributing exactly once: every merge-urls
\* step of the run is taken over a master list in which every part has been
\* appended once, and the list it produces is the union of the parts.
C14_FinalSet ==
  [][(Len(steps') > Len(steps) /\ steps'[Len(steps) + 1] = "merge-urls") =>
       /\ SeqRange(master) = PartUrls
       /\ finalList' = PartUrls
       /\ \A t \in Tasks : partF[t].there => appended[t] = 1]_vars

\* no worker has crashed and every worker has left the crawl loop
CrawlOver ==
  \A w \in Workers : cw[w].pc \in {"exit-empty", "exit-settled", "error"}

\* C15: Work stealing completeness. If all pending URLs lie in buckets
\* outside a worker's home set, that worker claims from those buckets once
\* its home buckets are empty, and every seeded accept-passing URL is
\* eventually completed.  Stated on the runs that have ended: when some
\* worker's home buckets are empty, once every worker has left the crawl
\* loop, none having crashed, every accept-passing URL of the buckets has its
\* .done marker.
C15_WorkStealing ==
  (/\ CrawlOver
   /\ \E w \in Workers : \A r \in SeqRange(preferred(w)) : bfile[r] = <<>>) =>
    \A r \in Buckets : \A i \in 1..Len(bfile[r]) :
      acceptFn(bfile[r][i]) => bfile[r][i] \in doneF

\* C16: Termination of discovery. For a frontier that receives only finitely
\* many URLs and with no worker crash, every worker eventually declares
\* quiescence and exits the crawl loop.  Stated on the runs that have ended:
\* a worker that has left the crawl loop, no worker having crashed, has left
\* it by declaring quiescence.
C16_Termination ==
  (\A w \in Workers : cw[w].pc # "crashed") =>
    \A w \in Workers : Stopped(cw[w].pc) => cw[w].pc \in {"exit-empty", "exit-settled"}

\* the sniffer and the gate have run, in the telemetry server or in the library
GateRun == pf.op \in {"preflight", "gate"}

\* the roles of the shape the gate was given, as one list: the library's
\* shape holds its list of roles in a list
RolesOf(p) ==
  IF p.op = "preflight" THEN p.shape.inferredRoles
  ELSE IF p.shape.inferredRoles = <<>> THEN <<>> ELSE p.shape.inferredRoles[1]

\* inputExists and (firstColumnUrlShare >= 0.6 or inferredRoles contains url)
ExistenceAllowed(p) ==
  /\ p.shape.exists
  /\ AtLeast(p.shape.firstColUrlShare, 6, 10) \/ Includes(RolesOf(p), "url")

\* inputExists and (inferredRoles contains title or description)
ComparisonAllowed(p) ==
  /\ p.shape.exists
  /\ Includes(RolesOf(p), "title") \/ Includes(RolesOf(p), "description")

\* C17: Gate soundness. For every input shape and every selection of outputs,
\* if the Output Gate returns ok (no errors), then existence_csv is in the
\* selection only if the input exists and (firstColumnUrlShare >= 0.6 or
\* inferredRoles contains url), and comparison_csv is in the selection only
\* if the input exists and inferredRoles contains title or description.
C17_GateSoundness ==
  (GateRun /\ pf.valid) =>
    /\ "existence_csv" \in pf.sel => ExistenceAllowed(pf)
    /\ "comparison_csv" \in pf.sel => ComparisonAllowed(pf)

\* the gate has accepted both gated outputs for a file of two columns
C17_Witness ==
  /\ GateRun /\ pf.valid
  /\ {"existence_csv", "comparison_csv"} \subseteq pf.sel
  /\ pf.shape.cols = 2

\* the output a message of the library's gate names
NamedOutput(msg) ==
  CASE msg \in {"existence_csv requires an input file.",
                "existence_csv requires first column to be URL-ish in >=60% rows."}
         -> "existence_csv"
    [] msg \in {"comparison_csv requires an input file.",
                "comparison_csv requires title and/or description columns (inferred from 2-3 column inputs)."}
         -> "comparison_csv"
    [] OTHER -> "none"

\* the gate reported an error for the output key
ErrorFor(p, key) ==
  \E i \in 1..Len(p.errors) :
    IF p.op = "preflight" THEN p.errors[i].key = key ELSE NamedOutput(p.errors[i]) = key

\* C18: Gate exactness. The Output Gate reports an error for existence_csv if
\* and only if it is selected and not (inputExists and (firstColumnUrlShare
\* >= 0.6 or inferredRoles contains url)); it reports an error for
\* comparison_csv if and only if it is selected and not (inputExists and
\* (inferredRoles contains title or description)); and it never reports an
\* error for urls, site_catalog, internal_links or tree.
C18_GateExactness ==
  GateRun =>
    /\ ErrorFor(pf, "existence_csv") <=>
         ("existence_csv" \in pf.sel /\ ~ExistenceAllowed(pf))
    /\ ErrorFor(pf, "comparison_csv") <=>
         ("comparison_csv" \in pf.sel /\ ~ComparisonAllowed(pf))
    /\ \A key \in {"urls", "site_catalog", "internal_links", "tree"} : ~ErrorFor(pf, key)

\* the table of roles by column count and URL shares, README "Input Files
\* Accepted"
RoleTable(f) ==
  IF f.cols >= 3 THEN <<"url", "title", "description">>
  ELSE IF f.cols = 2 THEN
    IF AtLeast(UrlShare(f, 1), 6, 10) /\ Below(UrlShare(f, 2), 3, 10)
    THEN IF AvgBelow(f, 2, TitleMaxLen) THEN <<"url", "title">> ELSE <<"url", "description">>
    ELSE IF Below(UrlShare(f, 1), 3, 10) /\ Below(UrlShare(f, 2), 3, 10)
    THEN <<"title", "description">>
    ELSE <<>>
  ELSE IF AtLeast(UrlShare(f, 1), 6, 10) THEN <<"url">>
  ELSE IF AvgBelow(f, 1, TitleMaxLen) THEN <<"title">> ELSE <<"description">>

\* C19: Classifier table. For every input, inferredRoles equals the table:
\* 3 or more columns give [url,title,description]; 2 columns with col1 URL
\* share >= 0.6 and col2 URL share < 0.3 give [url,title] if the average col2
\* length < 120, else [url,description]; 2 columns with both shares < 0.3
\* give [title,description]; any other 2-column input gives []; 1 column
\* with URL share >= 0.6 gives [url]; 1 column with share < 0.6 gives [title]
\* if the average length < 120, else [description].
C19_ClassifierTable ==
  (GateRun /\ inputFile.rows # <<>>) => RolesOf(pf) = RoleTable(inputFile)

\* a worker has resolved its mode, in the default run mode and without a
\* URL file from the orchestrator
ModeRun == pf.op = "mode" /\ ~pf.forceFrontier /\ ~pf.usingUrlsFile

\* the first column of the file holds URLs only, or no URL
FirstColumnUrls(f) == \A i \in 1..Len(f.rows) : f.rows[i].c1 = "url"
FirstColumnText(f) == \A i \in 1..Len(f.rows) : f.rows[i].c1 # "url"

\* C20: Run-mode derivation. The mode a worker resolves and reports is
\* no-input when there is no input file or the file is empty; explicit-urls
\* when the input is an explicit URL list (3 or more columns, or one column
\* of URLs, or two columns whose first column is URLs); and discovery in
\* every other case, such as a two-column title/description file.
C20_RunMode ==
  ModeRun =>
    /\ (~inputFile.exists \/ inputFile.rows = <<>>) => pf.mode = "no-input"
    /\ (inputFile.rows # <<>> /\
          (inputFile.cols >= 3 \/ FirstColumnUrls(inputFile))) => pf.mode = "explicit-urls"
    /\ (inputFile.rows # <<>> /\ inputFile.cols \in {1, 2} /\
          FirstColumnText(inputFile)) => pf.mode = "discovery"

\* the modes a worker reports
RunModes == {"no-input", "explicit-urls", "discovery"}

\* C21: Shape -> mode is a total deterministic function of the input bytes.
\* For every input (missing or empty included) a worker produces a mode, and
\* the explicit-list-versus-discovery decision of the orchestrator for a
\* file coincides with the decision a worker makes for the same file.
C21_ShapeToMode ==
  /\ pf.op = "mode" => pf.mode \in RunModes
  /\ ModeRun => pf.sitemapMode = orchSitemapMode(inputFile)
  /\ pf.op = "orch" => pf.sitemapMode = sitemapModeOf(inputFile, FALSE, FALSE)

\* a step in which POST /start answers ok
StartOkStep == hub'.resp = "start-ok" /\ hub.resp # "start-ok"

\* C22: Start requires a valid applied config. POST /start returns ok and
\* marks the run started only when the currently applied configuration passed
\* the Output Gate and names at least one output; after an Apply that was
\* rejected, or after Reset, /start is refused until a later Apply is
\* accepted.
C22_StartNeedsAppliedConfig ==
  [][StartOkStep =>
       /\ hub.APPLIED
       /\ hub.resp \notin {"rejected", "reset"}
       /\ cfgFile.there /\ cfgFile.valid /\ cfgFile.outputs # {}
       /\ hub'.STARTED]_vars

\* a step in which POST /reset is answered
ResetStep == hub'.resp = "reset" /\ hub.resp # "reset"

\* C23: Reset. After POST /reset, from any state of the hub, the aggregated
\* telemetry state is back to its initial value (mode init, stepper index 0,
\* all totals counters zero, no thread, bucket, tree or event records), the
\* stop flag file is absent and no configuration is applied or started.
C23_Reset ==
  [][ResetStep =>
       /\ hub'.mode = "init"
       /\ hub'.currentIndex = 0
       /\ hub'.urlsFound = 0
       /\ hub'.threads = {} /\ hub'.buckets = {} /\ hub'.tree = {} /\ hub'.events = 0
       /\ ~stopFlag'
       /\ ~hub'.APPLIED /\ ~hub'.STARTED /\ ~cfgFile'.there]_vars
\* a worker run for the existence report only that has an explicit URL list:
\* it resolved the list from the input itself, or the orchestrator, having
\* found the input explicit, handed it the list as a urlsFile
ExistenceOnlyRun ==
  /\ pf.op = "stage"
  /\ pf.onlyReports = {"existence_csv"}
  /\ ~pf.forceFrontier
  /\ \/ ~pf.usingUrlsFile /\ pf.sitemapMode
     \/ pf.usingUrlsFile /\ orchSitemapMode(inputFile)

\* C24: when existence_csv is the only selected output, a worker that has an
\* explicit URL list, derived from the input or received as a urlsFile, takes
\* the probe-only path and never enters the fetch stage
C24_ExistenceFastPath == ExistenceOnlyRun => pf.stage = "existence-only"

\* the non-empty URLs of a batch whose hash is r, in batch order
HashedTo(urls, r) == SelectSeq(urls, LAMBDA u : u # 0 /\ hashBucket(u) = r)

\* an append of batch urls: every bucket file gains, at its end, exactly the
\* batch's non-empty URLs that hash to it (after a rotation the file holds
\* nothing else)
AppendedAs(urls) ==
  \A r \in Buckets :
    LET added == HashedTo(urls, r)
    IN IF added = <<>> THEN bfile'[r] = bfile[r]
       ELSE bfile'[r] = bfile[r] \o added \/ bfile'[r] = added

\* every line of bucket r, and of its rotated siblings, is a non-empty URL
\* whose hash is r
Partitioned ==
  \A r \in Buckets : \A u \in SeqRange(bfile[r]) \cup rotatedF[r] : u # 0 /\ hashBucket(u) = r

\* C25: Seed and Append write each non-empty URL of a batch to bucket
\* hash(url) mod B and to no other bucket, whatever else the batch contains,
\* so a URL is only ever found in the bucket of its hash
C25_Partition ==
  /\ []Partitioned
  /\ [][bfile' # bfile => \E urls \in AppendInputs : AppendedAs(urls)]_vars

\* both buckets hold URLs, one of them URLs of more than one batch, after a
\* batch with an empty entry or a rotation
C25_Witness ==
  /\ \A r \in Buckets : bfile[r] # <<>>
  /\ \E r \in Buckets : Len(bfile[r]) > MaxAppend
  /\ \E r \in Buckets : rotatedF[r] # {}

\* C26: normalizeUrl is idempotent: for every accepted URL and either
\* keepPageParam, normalizing the normalized URL again changes nothing
C26_NormalizeIdempotent == nz.calls = 2 => nz.out = nz.prev

\* a claimNextBucket call has ended on bucket cn'.r
ClaimNextEnds == cn' # cn

\* the call found unread bytes in the bucket it ended on, so it scanned lines
ScannedLines == bucketPendingBytes(cursor, cn'.r) > 0

\* C27: every scanned line advances the cursor: a call that scanned lines
\* leaves the persisted cursor further on, and a call that returns nothing
\* leaves no pending bytes in the bucket
C27_ScanAdvancesCursor ==
  [][ClaimNextEnds =>
       /\ ScannedLines => cursor'[cn'.r] > cursor[cn'.r]
       /\ cn'.res = "null" => bucketPendingBytes(cursor', cn'.r) = 0]_vars

\* the lines of bucket r from its cursor on that pass accept and that the
\* ledger grants, by their place in the tail
Grantable(r) ==
  LET lines == tailLines(bfile[r], cursor[r])
  IN {i \in 1..Len(lines) :
        lines[i].url # 0 /\ acceptFn(lines[i].url) /\ Claimable(lines[i].url)}

\* the first of them: its URL and the byte offset in the file just after it
FirstGrantable(r) ==
  LET lines == tailLines(bfile[r], cursor[r])
      i == CHOOSE j \in Grantable(r) : \A k \in Grantable(r) : j <= k
  IN [url |-> lines[i].url, end |-> cursor[r] + sumInc(lines, i)]

\* C28: a ClaimNext call on a bucket that holds, from the cursor on, a line
\* that passes accept and that the ledger grants returns the first such line
\* as a claim and persists the byte offset just after that line
C28_ClaimFirstLine ==
  [][(ClaimNextEnds /\ Grantable(cn'.r) # {}) =>
       /\ cn'.res = "claim"
       /\ h'[cn'.w] = [url |-> FirstGrantable(cn'.r).url, fd |-> TRUE]
       /\ cursor'[cn'.r] = FirstGrantable(cn'.r).end]_vars

\* task k of worker w holds the claim on key u: as its seed from claimUrl to
\* its finally, or as its final URL from the upgrade to its finally
TaskHolds(w, k, u) ==
  LET t == fw[w].tasks[k]
  IN \/ t.st \in {"nav", "rec", "fin"} /\ t.seed = u
     \/ t.st \in {"rec", "fin"} /\ t.finalClaim /\ t.final = u

\* a task about to record holds the claim on the key it records, its lock
\* file on disk, and no two tasks hold the claim on one key
RecordUnderClaim ==
  /\ \A w \in Workers, k \in Slots :
       fw[w].tasks[k].st = "rec" =>
         /\ TaskHolds(w, k, fw[w].tasks[k].final)
         /\ fetchLock[fw[w].tasks[k].final] = w
  /\ \A u \in Urls :
       Cardinality({wk \in Workers \X Slots : TaskHolds(wk[1], wk[2], u)}) <= 1

\* the navigation of task k of worker w ends on a final URL that differs from
\* the seed and whose lock file exists
UpgradeRefused(w, k) ==
  /\ fw[w].tasks[k].st = "nav"
  /\ fw'[w].tasks[k].st # "nav"
  /\ fw'[w].tasks[k].final # fw[w].tasks[k].seed
  /\ fetchLock[fw'[w].tasks[k].final] # 0

LeavesPass(w) == cw[w].pc = "scan" /\ cw'[w].pc \notin {"scan", "crashed"}

LaterHandleCall == hc' # hc /\ hc'.closed

TrimStep == doneF \ doneF' # {}

\* C32: ledger trimming deletes only .done files: a trim removes no .lock
\* file, whoever created it, and takes no held claim away from its worker
C32_TrimOnlyDone ==
  [][TrimStep =>
       /\ \A u \in Urls : lockF[u] # 0 => lockF'[u] = lockF[u]
       /\ \A w \in Workers, u \in Urls : Holds(w, u) => Holds(w, u)']_vars

\* a tryClaim has returned a claim after a trim while another worker holds
\* a claim whose .lock is on disk
C32_Witness ==
  \E w1, w2 \in Workers :
    /\ w1 # w2
    /\ ret[w1].res = "claimed" /\ Holds(w1, ret[w1].url)
    /\ everDone \ doneF # {}
    /\ Cardinality(doneF) = MC_MAX_DONE
    /\ h[w2].fd /\ lockF[h[w2].url] = w2

\* the ways tryClaim returns null
NullResults == {"done", "busy", "exists", "error", "failed"}

\* worker w's tryClaim has returned
Returned(w) == (tc[w].st = "open" /\ tc'[w].st = "idle") \/ ret'[w] # ret[w]

WorkersSpawned == sd.pc = "spawn" /\ sd'.pc = "crawl"

\* URL u is a line of the bucket file hash(u) mod B
InItsBucket(u) == u \in SeqRange(bfile[hashBucket(u)])

\* C34: when the workers are spawned in the discovery path, the frontier
\* buckets hold the base-prefix URL and every first-level section URL and
\* in-scope link found by the seed-scan, each in bucket hash(url) mod B
C34_FrontierSeeded ==
  [][WorkersSpawned => \A u \in bootstrapSeeds : InItsBucket(u)]_vars

\* C34, in the code as it is: at the spawn the frontier holds the base-prefix
\* URL, appended at line 426 and again at line 570, and nothing else
C34_OnlyBaseSeeded ==
  [][WorkersSpawned =>
       \A r \in Buckets : bfile[r] = perBucket(<<seedUrl, seedUrl>>, r)]_vars
C34_Witness == sd.pc = "crawl" /\ sd.sections # {} /\ ~InItsBucket(CHOOSE u \in sd.sections : TRUE)

\* the hub handles an update in flight
HubHandles(i) ==
  /\ i \in 1..Len(tel.inflight)
  /\ tel'.inflight = without(tel.inflight, i)
  /\ tel'.got = tel.inflight[i]
  /\ tel'.nsent = tel.nsent

\* C35: every update a worker sends is applied by the hub according to its
\* kind; in particular an event update sent through telemetry.event is
\* appended to the hub's ring of recent events
C35_UpdateApplied ==
  [][\A i \in 1..MaxInflight :
       (HubHandles(i) /\ tel.inflight[i].ev) => hub'.events = hub.events + 1]_vars

\* C35, in the code as it is: an update whose type is one of the six cases of
\* the switch changes the field of that case, and every other update, the
\* events among them, changes nothing in the hub's state
C35_SixKindsApplied ==
  [][\A i \in 1..MaxInflight :
       HubHandles(i) =>
         LET msg == tel.inflight[i]
         IN /\ msg.type = "thread" => hub'.threads = hub.threads \cup {1}
            /\ msg.type = "bucket" => hub'.buckets = hub.buckets \cup {0}
            /\ msg.type = "tree" => hub'.tree = hub.tree \cup {"/a"}
            /\ msg.type = "bump" => hub'.urlsFound # hub.urlsFound
            /\ msg.type = "step" => hub'.currentIndex = 1
            /\ msg.type = "mode" => hub'.mode = "discovery"
            /\ msg.type \notin UpdateTypes => [hub' EXCEPT !.resp = hub.resp] = hub
            /\ hub'.events = hub.events]_vars

\* no bump update is on its way to the hub
BumpsSettled == \A i \in 1..Len(tel.inflight) : tel.inflight[i].type # "bump"

\* the hub handles a bump update carrying delta d
BumpHandled(i, d) ==
  HubHandles(i) /\ tel.inflight[i].type = "bump" /\ tel.inflight[i].delta = d

\* C37: once the bump updates sent have been handled, the hub's counter
\* equals the sum of the deltas the workers sent, and a bump whose delta is 0
\* leaves the counter unchanged
C37_ExactSums ==
  /\ [](BumpsSettled => hub.urlsFound = tel.sum)
  /\ [][\A i \in 1..MaxInflight : BumpHandled(i, 0) => hub'.urlsFound = hub.urlsFound]_vars

\* C37, in the code as it is: a bump adds its delta when the delta is not 0,
\* and adds 1 when it is 0
C37_ZeroCountsAsOne ==
  [][\A i \in 1..MaxInflight, d \in Deltas :
       BumpHandled(i, d) => hub'.urlsFound = hub.urlsFound + (IF d = 0 THEN 1 ELSE d)]_vars

\* the order of the phases of a run
PhaseRank(phase) ==
  CASE phase = "init" -> 0
    [] phase = "input-confirm" -> 1
    [] phase \in {"fetch", "fetched"} -> 2
    [] phase = "stopped" -> 3
    [] OTHER -> 4

\* the phases reported so far are in order
InOrder(w) ==
  \A i \in 1..Len(wl[w].phases), j \in 1..Len(wl[w].phases) :
    i < j => PhaseRank(wl[w].phases[i]) <= PhaseRank(wl[w].phases[j])

\* the last phase worker w has reported is done
EndsDone(w) ==
  wl[w].phases # <<>> /\ wl[w].phases[Len(wl[w].phases)] = "done"

\* C36: every worker run that does not raise returns, its phases are reported
\* in order, and a run that has returned has reported phase done last: also
\* with an empty URL slice, on the existence-only path and after Stop
C36_ReachesDone ==
  /\ \A w \in Workers : (wl[w].pc = "start") ~> (wl[w].pc \in {"returned", "raised"})
  /\ [](\A w \in Workers : InOrder(w) /\ (wl[w].pc = "returned" => EndsDone(w)))

\* C36, in the code as it is: every run that does not raise returns, its
\* phases are in order, and a run that has returned has reported done last
\* unless its URL slice was empty outside the existence-only path
C36_DoneUnlessEmptySlice ==
  /\ \A w \in Workers : (wl[w].pc = "start") ~> (wl[w].pc \in {"returned", "raised"})
  /\ [](\A w \in Workers :
          /\ InOrder(w)
          /\ wl[w].pc = "returned" =>
               (EndsDone(w) <=> ~(wl[w].urls = 0 /\ ~wl[w].existenceOnly)))

\* worker w ends its startup
StartsUp(w) == fw[w].pc = "boot" /\ fw'[w].pc # "boot"

\* task k of worker w runs its finally and releases its claims
Releases(w, k) == fw[w].tasks[k].st = "fin" /\ fw'[w].tasks[k].st = "ended"

\* C38: a worker starting up, its dropCache reset of the locks directory
\* included, removes no .lock created by another worker, and release()
\* removes only a lock file that the releasing worker itself created
C38_LocksOwned ==
  [][/\ \A w \in Workers : StartsUp(w) =>
          \A u \in Urls : fetchLock[u] \notin {0, w} => fetchLock'[u] = fetchLock[u]
     /\ \A w \in Workers, k \in Slots : Releases(w, k) =>
          \A u \in Urls : fetchLock'[u] # fetchLock[u] => fetchLock[u] = w]_vars

\* C38, in the code as it is: the same holds in every run started without
\* --dropCache
C38_OwnedWithoutDropCache ==
  [][(\A x \in Workers : ~fw[x].dropCache) =>
       /\ \A w \in Workers : StartsUp(w) =>
            \A u \in Urls : fetchLock[u] \notin {0, w} => fetchLock'[u] = fetchLock[u]
       /\ \A w \in Workers, k \in Slots : Releases(w, k) =>
            \A u \in Urls : fetchLock'[u] # fetchLock[u] => fetchLock[u] = w]_vars

\* how often the orchestrator has run its finalization: the merge-urls steps
\* it has reported
Finalizations == Cardinality({i \in 1..Len(steps) : steps[i] = "merge-urls"})

\* C39: in explicit-URL mode the orchestrator runs its finalization (merge,
\* dedupe, cleanup, step done) at most once in a run, and only after every
\* spawned worker has exited, however the worker-exit handlers interleave
\* around their awaited stop check
C39_FinalizeOnce ==
  /\ [](orch.path = "explicit" => Finalizations <= 1)
  /\ [][(orch.path = "explicit" /\ Len(steps') > Len(steps)
           /\ steps'[Len(steps) + 1] = "merge-urls") =>
          \A t \in Tasks : child[t] # "none" => child[t] \in {"await", "over"}]_vars

\* C39, in the code as it is: every finalization comes after the last worker
\* has exited, and there are at most as many finalizations as exit handlers
\* that have passed their stop check
C39_FinalizePerHandler ==
  /\ [](orch.path = "explicit" =>
          Finalizations <= Cardinality({t \in Tasks : child[t] = "over"}))
  /\ [][(orch.path = "explicit" /\ Len(steps') > Len(steps)
           /\ steps'[Len(steps) + 1] = "merge-urls") =>
          \A t \in Tasks : child[t] # "none" => child[t] \in {"await", "over"}]_vars

\* the URLs of the whole lines of file f from byte cur on: what a
\* claimNextBucket call on the bucket can still scan
PendingUrls(f, cur) ==
  {tailLines(f, cur)[i].url : i \in 1..Len(tailLines(f, cur))} \ {0}

\* an appendToBuckets call writes to the bucket files
AppendStep == bfile' # bfile

\* C40: an append, with or without the rotation of an over-cap bucket file,
\* drops no pending URL: every URL that ClaimNext on the bucket could still
\* scan before the call can still be scanned after it
C40_RotationKeepsPending ==
  [][AppendStep =>
       \A r \in Buckets :
         PendingUrls(bfile[r], cursor[r]) \subseteq PendingUrls(bfile'[r], cursor'[r])]_vars

\* C40, in the code as it is: an append that does not rotate the bucket file
\* drops no pending URL, and a rotation leaves the lines of the old file in
\* the timestamped sibling, which no reader opens
C40_RotationSetsAside ==
  [][AppendStep =>
       \A r \in Buckets :
         /\ bfile'[r] # bfile[r] /\ ~Rotates(r) =>
              PendingUrls(bfile[r], cursor[r]) \subseteq PendingUrls(bfile'[r], cursor'[r])
         /\ bfile'[r] # bfile[r] /\ Rotates(r) =>
              /\ SeqRange(bfile[r]) \subseteq rotatedF'[r]
              /\ Len(bfile'[r]) <= MaxAppend
         /\ bfile'[r] = bfile[r] => rotatedF'[r] = rotatedF[r]]_vars

====
